---- MODULE Spec2Model ----
(***************************************************************************)
(* A model of cpycvt: the rule-based Lexer (lexer.py), the PICTURE clause  *)
(* decoder (picture.py), and the copybook parser and tree builder          *)
(* (copybook.py).                                                          *)
(*                                                                         *)
(* Text is a sequence of one-character strings.  An absent value (Python   *)
(* None) of an optional text field is the empty sequence, which no token   *)
(* text can be; an optional object is a sequence of zero or one records.   *)
(***************************************************************************)
EXTENDS Integers, Sequences, FiniteSets, TLC

VARIABLES
    \* a Lexer and its parse (lexer.py)
    rules,          \* self.rules
    lexer_data,     \* self.data: <<>> for None, else <<the text>>
    lexer_tokens,   \* self.tokens
    lx_arg,         \* the argument data of parse (None and '' are both <<>>)
    curr_pos,       \* curr_pos (1-based here)
    lx_result,      \* "idle", "running", "returned" (self.tokens), "returned_none"
                    \* or the exception raised
    lx_message,     \* the message of the ParserError: <<[line, col, head]>>, or <<>>
    lx_calls,       \* the number of calls of parse made on the Lexer
    \* PictureDecoder.decode (picture.py)
    pic,            \* the argument of decode
    pic_tokens,     \* tokens = self.lexer.parse(pic)
    pic_idx,        \* token_idx (1-based here)
    pic_state,      \* state
    picture,        \* the Picture under construction
    pic_result,     \* "start", "running", "picture", "none" or the exception raised
    \* build_node_tree (copybook.py)
    in_nodes,       \* the argument node_list: the Nodes, each given by its node_level
    tree,           \* the TreeNodes made so far; tree[1] is root
    ptr,            \* ptr, an index into tree
    tree_idx,       \* the position of the for loop in in_nodes
    tree_result,    \* "running", "returned" or the exception raised
    \* parse_copybook and its consume (copybook.py)
    script,         \* the tokens of a named copybook, or <<>>: any copybook
    tokens,         \* tokens = tokenize(copybook), as far as consume has looked
    token_idx,      \* token_idx (1-based here)
    state,          \* state
    level,          \* level
    node,           \* node: <<>> for None, else <<the Node>>
    node_list,      \* node_list
    parse_result,   \* "running", "returned" or the exception raised
    err_at,         \* the token whose line and col the exception's message gives, or 0
    parses,         \* the calls of parse_copybook that have ended, oldest first:
                    \* [copybook, result, node_list, err_at]
    \* tokenize (copybook.py)
    tk_text,        \* the argument text
    tk_pos,         \* the position of the for loop in text (1-based here)
    tk_state,       \* state
    tk_line,        \* line
    tk_col,         \* col
    s_token,        \* s_token
    tk_tokens,      \* tokens: each [enum, text, line, col]
    tk_result,      \* "idle", "running" or "returned"
    \* Node.to_dict over a Node list, and to_dict over its tree (copybook.py)
    dict_nodes,     \* node_list: the Nodes to serialize
    dict_mode,      \* "flat" (Node.to_dict of each Node) or "nested" (to_dict of the tree)
    dict_tree,      \* the TreeNodes of build_node_tree(node_list), <<>> before it is built
    dict_idx,       \* the position in node_list of the flat mode
    dict_out,       \* the mappings made: one for each Node (flat), or the one of root
    dict_result,    \* "idle", "running", "returned" or the exception raised
    \* a Parser and a call of its match_token_stream (lexer.py)
    p_tokens,       \* self.tokens
    token_ptr,      \* self.token_ptr
    curr_token,     \* self.curr_token: <<>> for None, else <<the Token>>
    next_token,     \* self.next_token: <<>> for None, else <<the Token>>
    ms,             \* the call: [enum_list, required, idx (the position of the for
                    \* loop in enum_list), ta, mark, ct, nt, ret (the list returned)]
    ms_result       \* "idle", "running", "returned" or the exception raised

pic_vars == <<pic, pic_tokens, pic_idx, pic_state, picture, pic_result>>
tree_vars == <<in_nodes, tree, ptr, tree_idx, tree_result>>
parse_vars ==
    <<script, tokens, token_idx, state, level, node, node_list, parse_result, err_at, parses>>

lexer_vars ==
    <<rules, lexer_data, lexer_tokens, lx_arg, curr_pos, lx_result, lx_message, lx_calls>>

tok_vars == <<tk_text, tk_pos, tk_state, tk_line, tk_col, s_token, tk_tokens, tk_result>>
dict_vars == <<dict_nodes, dict_mode, dict_tree, dict_idx, dict_out, dict_result>>

parser_vars == <<p_tokens, token_ptr, curr_token, next_token, ms, ms_result>>

vars == <<pic_vars, tree_vars, parse_vars, lexer_vars, tok_vars, dict_vars, parser_vars>>

\* what decode, build_node_tree, parse_copybook and Lexer.parse leave alone
pic_frame == <<tree_vars, parse_vars, lexer_vars, tok_vars, dict_vars, parser_vars>>
tree_frame == <<pic_vars, parse_vars, lexer_vars, tok_vars, dict_vars, parser_vars>>
parse_frame == <<pic_vars, tree_vars, lexer_vars, tok_vars, dict_vars, parser_vars>>
lexer_frame == <<pic_vars, tree_vars, parse_vars, tok_vars, dict_vars, parser_vars>>
tok_frame == <<pic_vars, tree_vars, parse_vars, lexer_vars, dict_vars, parser_vars>>
dict_frame == <<pic_vars, tree_vars, parse_vars, lexer_vars, tok_vars, parser_vars>>
parser_frame == <<pic_vars, tree_vars, parse_vars, lexer_vars, tok_vars, dict_vars>>

(***************************************************************************)
(* Bounds of the model.                                                    *)
(***************************************************************************)
\* a picture text is made of at most this many pieces of PicPieces
MaxPieces == 4
\* a text given to Lexer.parse is made of at most this many pieces of LexPieces
MaxLexPieces == 2
\* parse is called at most this many times on one Lexer
MaxCalls == 2
\* build_node_tree is given at most this many Nodes, with levels 0..MaxLevel
MaxNodes == 5
MaxLevel == 3
\* node_list given to the serializers has at most this many Nodes
MaxDictNodes == 2
\* a text given to tokenize is made of at most this many pieces of TokPieces
MaxTokPieces == 4
\* a copybook that is not a named one has at most this many tokens before EOF
MaxTokens == 5
\* parse_copybook is called at most this many times, one call after the other
MaxParses == 3
\* a Parser has at most this many tokens before the EOF token, if there is one
MaxParserTokens == 3
\* enum_list of match_token_stream has at most this many kinds
MaxStreamLen == 3

(***************************************************************************)
(* Characters.                                                             *)
(***************************************************************************)
Digits == {"0", "1", "2", "3", "4", "5", "6", "7", "8", "9"}

DigitVal(c) ==
    CASE c = "0" -> 0 [] c = "1" -> 1 [] c = "2" -> 2 [] c = "3" -> 3
      [] c = "4" -> 4 [] c = "5" -> 5 [] c = "6" -> 6 [] c = "7" -> 7
      [] c = "8" -> 8 [] c = "9" -> 9

\* int(text) of a text made of decimal digits only
RECURSIVE IntOf(_)
IntOf(t) ==
    IF t = <<>> THEN 0
    ELSE IntOf(SubSeq(t, 1, Len(t) - 1)) * 10 + DigitVal(t[Len(t)])

\* the number of leading characters of SubSeq(s, pos, Len(s)) that are in set cs
RECURSIVE RunLen(_, _, _)
RunLen(s, pos, cs) ==
    IF pos <= Len(s) /\ s[pos] \in cs THEN 1 + RunLen(s, pos + 1, cs) ELSE 0

(***************************************************************************)
(* lexer.py: Rule, Lexer.parse.                                            *)
(* A rule is [enum, regex, group, is_ws, is_eof, is_comment]; regex names  *)
(* the pattern.  ReMatch is re.match of the compiled pattern on            *)
(* data[curr_pos:]: the length of the (greedy) match, or -1 for no match.  *)
(***************************************************************************)
ReMatch(regex, s, pos) ==
    CASE regex = "X+" ->          \* r'X+' with re.IGNORECASE
            LET n == RunLen(s, pos, {"X", "x"}) IN IF n >= 1 THEN n ELSE -1
      [] regex = "9+" ->
            LET n == RunLen(s, pos, {"9"}) IN IF n >= 1 THEN n ELSE -1
      [] regex = "X" -> IF pos <= Len(s) /\ s[pos] = "X" THEN 1 ELSE -1
      [] regex = "\\s+" ->
            LET n == RunLen(s, pos, {" ", "\t", "\n"}) IN IF n >= 1 THEN n ELSE -1
      [] regex = "\\s*" -> RunLen(s, pos, {" ", "\t", "\n"})   \* matches '' too
      [] regex = "V" -> IF pos <= Len(s) /\ s[pos] = "V" THEN 1 ELSE -1
      [] regex = "S" -> IF pos <= Len(s) /\ s[pos] = "S" THEN 1 ELSE -1
      [] regex = "\\((\\d+)\\)" ->
            IF pos <= Len(s) /\ s[pos] = "("
            THEN LET n == RunLen(s, pos + 1, Digits) IN
                 IF n >= 1 /\ pos + 1 + n <= Len(s) /\ s[pos + 1 + n] = ")"
                 THEN n + 2 ELSE -1
            ELSE -1

\* matcher.group(g) of a match of length n at pos
ReGroup(regex, g, s, pos, n) ==
    IF g = 1 /\ regex = "\\((\\d+)\\)"
    THEN SubSeq(s, pos + 1, pos + n - 2)
    ELSE SubSeq(s, pos, pos + n - 1)

Rule(enum, regex, group, is_eof) ==
    [enum |-> enum, regex |-> regex, group |-> group, is_ws |-> FALSE,
     is_eof |-> is_eof, is_comment |-> FALSE]

\* Rule.compile: an empty regex is left without a pattern
HasPattern(rule) == rule.regex # ""

\* the rules that match at pos, in registration order, as <<rule index, length>>
RECURSIVE Matched(_, _, _, _)
Matched(rs, k, s, pos) ==
    IF k > Len(rs) THEN <<>>
    ELSE LET n == IF HasPattern(rs[k]) THEN ReMatch(rs[k].regex, s, pos) ELSE -1
         IN (IF n >= 0 THEN <<(<<k, n>>)>> ELSE <<>>) \o Matched(rs, k + 1, s, pos)

\* the last entry of matched with the greatest length
RECURSIVE Longest_last(_, _, _, _)
Longest_last(matched, i, ln, index) ==
    IF i > Len(matched) THEN index
    ELSE IF matched[i][2] >= ln THEN Longest_last(matched, i + 1, matched[i][2], i)
    ELSE Longest_last(matched, i + 1, ln, index)

\* "find longest matched token": the first entry of matched with the greatest
\* length (index 0 when no length exceeds 0)
RECURSIVE Longest(_, _, _, _)
Longest(matched, i, ln, index) ==
    IF i > Len(matched) THEN index
    ELSE IF matched[i][2] > ln THEN Longest(matched, i + 1, matched[i][2], i)
    ELSE Longest(matched, i + 1, ln, index)

\* no rule is kept as the EOF rule
EofRule_none(rs) == <<>>

\* the rule registered last with is_eof, or <<>> (Lexer.add_rule)
EofRule(rs) ==
    LET S == {k \in 1..Len(rs) : rs[k].is_eof} IN
    IF S = {} THEN <<>> ELSE <<rs[CHOOSE k \in S : \A j \in S : j <= k]>>

EofText == <<"<", "E", "O", "F", ">">>

\* Lexer.parse(data) for non-empty data with self.tokens = [] : the loop from
\* pos on.  Returns [err, tokens]; err is "ParserError" when no rule matches.
RECURSIVE LexLoop(_, _, _, _)
LexLoop(rs, data, pos, toks) ==
    LET matched == Matched(rs, 1, data, pos) IN
    IF Len(matched) = 0 THEN [err |-> "ParserError", tokens |-> toks]
    ELSE LET index == Longest(matched, 1, 0, 1)
             rule == rs[matched[index][1]]
             n == matched[index][2]
             added == IF ~(rule.is_ws \/ rule.is_comment)
                     THEN Append(toks, [enum |-> rule.enum,
                                          text |-> ReGroup(rule.regex, rule.group, data, pos, n)])
                     ELSE toks
             next_pos == pos + n
         IN IF next_pos > Len(data)
            THEN [err |-> "",
                  tokens |-> IF EofRule(rs) # <<>>
                             THEN Append(added, [enum |-> EofRule(rs)[1].enum, text |-> EofText])
                             ELSE added]
            ELSE LexLoop(rs, data, next_pos, added)

LexerParse(rs, data) == LexLoop(rs, data, 1, <<>>)

\* Lexer.break_lines: the Ranges [line_number, start, end] of the lines of data,
\* with the 0-based positions of the source
RECURSIVE BreakLinesFrom(_, _, _)
BreakLinesFrom(data, index, lines) ==
    IF index >= Len(data) THEN [lines EXCEPT ![Len(lines)].end = Len(data) - 1]
    ELSE IF data[index + 1] = "\n"
         THEN BreakLinesFrom(data, index + 1,
                  Append([lines EXCEPT ![Len(lines)].end = index],
                         [line_number |-> lines[Len(lines)].line_number + 1,
                          start |-> index + 1, end |-> 0]))
         ELSE BreakLinesFrom(data, index + 1, lines)

break_lines(data) == BreakLinesFrom(data, 0, <<[line_number |-> 1, start |-> 0, end |-> 0]>>)

\* find_line_col with the column counted from 0
find_line_col_zero(lines, pos) ==
    LET S == {i \in 1..Len(lines) : lines[i].start <= pos /\ pos <= lines[i].end} IN
    IF S = {} THEN <<>>
    ELSE LET i == CHOOSE i \in S : \A j \in S : i <= j IN
         <<lines[i].line_number, pos - lines[i].start>>

\* Lexer.find_line_col for the 0-based position pos: <<line, col>>, or <<>> for None
find_line_col(lines, pos) ==
    LET S == {i \in 1..Len(lines) : lines[i].start <= pos /\ pos <= lines[i].end} IN
    IF S = {} THEN <<>>
    ELSE LET i == CHOOSE i \in S : \A j \in S : i <= j IN
         <<lines[i].line_number, pos - lines[i].start + 1>>

\* the message of the ParserError raised at curr_pos (1-based): line, col and
\* self.data[curr_pos:curr_pos + 10]
ParserErrorMessage(data, pos) ==
    LET lc == find_line_col(break_lines(data), pos - 1) IN
    [line |-> lc[1], col |-> lc[2],
     head |-> SubSeq(data, pos, IF pos + 9 <= Len(data) THEN pos + 9 ELSE Len(data))]

\* Lexer.parse(arg) as one call on a Lexer with self.data = ldata and
\* self.tokens = ltokens: [err, tokens, data], with err "" when self.tokens is
\* returned, tokens and data being self.tokens and self.data after the call
LexerCall(rs, ldata, ltokens, arg) ==
    LET d == IF arg # <<>> THEN <<arg>> ELSE ldata
        t0 == IF arg # <<>> THEN <<>> ELSE ltokens
    IN
    IF d = <<>> THEN [err |-> "TypeError", tokens |-> t0, data |-> d]
    ELSE IF d[1] = <<>> THEN [err |-> "returned_none", tokens |-> t0, data |-> d]
    ELSE [err |-> LexLoop(rs, d[1], 1, t0).err,
          tokens |-> LexLoop(rs, d[1], 1, t0).tokens,
          data |-> d]

(***************************************************************************)
(* picture.py: PictureDecoder.                                             *)
(***************************************************************************)
\* PictureDecoder._setup_lexer
PictureRules ==
    << Rule("X", "X+", 0, FALSE),
       Rule("9", "9+", 0, FALSE),
       Rule("V", "V", 0, FALSE),
       Rule("S", "S", 0, FALSE),
       Rule("len", "\\((\\d+)\\)", 1, FALSE),
       Rule("eol", "", 0, TRUE) >>

\* Picture.__init__
NewPicture ==
    [picture_type |-> "none", length |-> 0, scale |-> 0, default |-> <<>>, signed |-> FALSE]

\* the outcome of one pass of decode's loop body, before token_idx += 1;
\* ret is "" (go on), "none" (return None) or the exception raised
Go(st, p, idx) == [state |-> st, picture |-> p, idx |-> idx, ret |-> ""]
Ret(ret, st, p, idx) == [state |-> st, picture |-> p, idx |-> idx, ret |-> ret]

\* state == T_BEGIN taking an X run whatever picture_type is
decode_T_BEGIN_anyX(toks, idx, p) ==
    LET token == toks[idx] IN
    CASE token.enum = "X" ->
            IF Len(token.text) = 1
            THEN Go("single_x", [p EXCEPT !.picture_type = "string"], idx)
            ELSE Go("wait_eol", [p EXCEPT !.picture_type = "string",
                                          !.length = Len(token.text)], idx)
      [] token.enum = "9" ->
            IF Len(token.text) = 1
            THEN Go("single_9", [p EXCEPT !.picture_type = "numeric"], idx)
            ELSE Go("wait_fixed_point", [p EXCEPT !.picture_type = "numeric",
                                                  !.length = Len(token.text)], idx)
      [] token.enum = "S" ->
            Go("begin", [p EXCEPT !.signed = TRUE, !.picture_type = "numeric"], idx)
      [] token.enum = "V" ->
            Go("wait_fixed_point", [p EXCEPT !.length = 0, !.picture_type = "numeric"], idx)
      [] OTHER -> Ret("none", "begin", p, idx)

\* state == T_BEGIN
decode_T_BEGIN(toks, idx, p) ==
    LET token == toks[idx] IN
    CASE token.enum = "X" ->
            IF p.picture_type # "none" THEN Ret("none", "begin", p, idx)
            ELSE IF Len(token.text) = 1
                 THEN Go("single_x", [p EXCEPT !.picture_type = "string"], idx)
                 ELSE Go("wait_eol", [p EXCEPT !.picture_type = "string",
                                               !.length = Len(token.text)], idx)
      [] token.enum = "9" ->
            IF Len(token.text) = 1
            THEN Go("single_9", [p EXCEPT !.picture_type = "numeric"], idx)
            ELSE Go("wait_fixed_point", [p EXCEPT !.picture_type = "numeric",
                                                  !.length = Len(token.text)], idx)
      [] token.enum = "S" ->
            Go("begin", [p EXCEPT !.signed = TRUE, !.picture_type = "numeric"], idx)
      [] token.enum = "V" ->
            Go("wait_fixed_point", [p EXCEPT !.length = 0, !.picture_type = "numeric"], idx)
      [] OTHER -> Ret("none", "begin", p, idx)

\* decode_T_SINGLE_X taking the count's number of digits for its value
decode_T_SINGLE_X_digits(toks, idx, p) ==
    LET token == toks[idx] IN
    CASE token.enum = "len" -> Go("wait_eol", [p EXCEPT !.length = Len(token.text)], idx)
      [] token.enum = "eol" -> Go("single_x", [p EXCEPT !.length = 1], idx)
      [] OTHER -> Ret("none", "single_x", p, idx)

\* state == T_SINGLE_X
decode_T_SINGLE_X(toks, idx, p) ==
    LET token == toks[idx] IN
    CASE token.enum = "len" -> Go("wait_eol", [p EXCEPT !.length = IntOf(token.text)], idx)
      [] token.enum = "eol" -> Go("single_x", [p EXCEPT !.length = 1], idx)
      [] OTHER -> Ret("none", "single_x", p, idx)

\* state == T_SINGLE_9
decode_T_SINGLE_9(toks, idx, p) ==
    LET token == toks[idx] IN
    CASE token.enum = "len" ->
            Go("wait_fixed_point", [p EXCEPT !.length = IntOf(token.text)], idx)
      [] token.enum = "eol" -> Go("single_9", [p EXCEPT !.length = 1], idx)
      [] token.enum = "V" -> Go("wait_fixed_point", p, idx)
      [] OTHER -> Ret("none", "single_9", p, idx)

\* state == T_WAIT_FIXED_POINT setting scale without adding it to length
decode_T_WAIT_FIXED_POINT_noadd(toks, idx, p) ==
    LET token == toks[idx] IN
    CASE token.enum = "V" -> Go("wait_fixed_point", p, idx)
      [] token.enum = "9" ->
            IF Len(token.text) = 1 /\ idx + 1 > Len(toks)
            THEN Ret("IndexError", "wait_fixed_point", p, idx)
            ELSE IF Len(token.text) = 1 /\ toks[idx + 1].enum = "len"
            THEN Go("wait_eol", [p EXCEPT !.scale = IntOf(toks[idx + 1].text)], idx + 1)
            ELSE Go("wait_eol", [p EXCEPT !.scale = Len(token.text)], idx)
      [] token.enum # "eol" -> Ret("none", "wait_fixed_point", p, idx)
      [] OTHER -> Go("wait_fixed_point", p, idx)

\* state == T_WAIT_FIXED_POINT
decode_T_WAIT_FIXED_POINT(toks, idx, p) ==
    LET token == toks[idx] IN
    CASE token.enum = "V" -> Go("wait_fixed_point", p, idx)
      [] token.enum = "9" ->
            IF Len(token.text) = 1 /\ idx + 1 > Len(toks)
            THEN Ret("IndexError", "wait_fixed_point", p, idx)    \* tokens[token_idx+1]
            ELSE IF Len(token.text) = 1 /\ toks[idx + 1].enum = "len"
            THEN LET sc == IntOf(toks[idx + 1].text) IN
                 Go("wait_eol", [p EXCEPT !.scale = sc, !.length = p.length + sc], idx + 1)
            ELSE Go("wait_eol", [p EXCEPT !.scale = Len(token.text),
                                          !.length = p.length + Len(token.text)], idx)
      [] token.enum # "eol" -> Ret("none", "wait_fixed_point", p, idx)
      [] OTHER -> Go("wait_fixed_point", p, idx)

\* state == T_WAIT_EOL
decode_T_WAIT_EOL(toks, idx, p) ==
    LET token == toks[idx] IN
    IF token.enum # "eol" THEN Ret("none", "wait_eol", p, idx)
    ELSE Go("wait_eol", p, idx)

\* one pass of the loop body of decode
DecodeBody(toks, idx, st, p) ==
    CASE st = "begin" -> decode_T_BEGIN(toks, idx, p)
      [] st = "single_x" -> decode_T_SINGLE_X(toks, idx, p)
      [] st = "single_9" -> decode_T_SINGLE_9(toks, idx, p)
      [] st = "wait_fixed_point" -> decode_T_WAIT_FIXED_POINT(toks, idx, p)
      [] st = "wait_eol" -> decode_T_WAIT_EOL(toks, idx, p)

\* the loop of decode from token_idx = idx on: [ret, picture], ret "picture"
\* when the loop runs out of tokens and the Picture is returned
RECURSIVE DecodeLoop(_, _, _, _)
DecodeLoop(toks, idx, st, p) ==
    IF idx > Len(toks) THEN [ret |-> "picture", picture |-> p]
    ELSE LET r == DecodeBody(toks, idx, st, p) IN
         IF r.ret # "" THEN [ret |-> r.ret, picture |-> r.picture]
         ELSE DecodeLoop(toks, r.idx + 1, r.state, r.picture)

\* decode after tokens = self.lexer.parse(pic), lx being what parse did
DecodeTokens(lx) ==
    IF lx.err # "" THEN [ret |-> lx.err, picture |-> NewPicture]
    ELSE DecodeLoop(lx.tokens, 1, "begin", NewPicture)

\* PictureDecoder.decode(pic) for a non-empty pic, as one call
decode(text) == DecodeTokens(LexerParse(PictureRules, text))

(***************************************************************************)
(* The picture texts decode is run on: the pictures the specification      *)
(* names, and every concatenation of one to MaxPieces pieces.              *)
(***************************************************************************)
PicPieces ==
    { <<"X">>, <<"X", "X">>, <<"9">>, <<"9", "9">>, <<"V">>, <<"S">>,
      <<"(", "0", "3", ")">>, <<"Q">> }

RECURSIVE PicTexts(_)
PicTexts(n) ==
    IF n = 0 THEN {<<>>}
    ELSE LET shorter == PicTexts(n - 1) IN
         shorter \cup {t \o q : t \in shorter, q \in PicPieces}

Pic_X20 == <<"X", "(", "2", "0", ")">>
Pic_S9_5_V99 == <<"S", "9", "(", "5", ")", "V", "9", "9">>
Pic_V9_02 == <<"V", "9", "(", "0", "2", ")">>
Pic_9_05 == <<"9", "(", "0", "5", ")">>
Pic_XQ == <<"X", "Q">>

NamedPics == {Pic_X20, Pic_S9_5_V99, Pic_V9_02, Pic_9_05, Pic_XQ}

(***************************************************************************)
(* decode, step by step.                                                   *)
(***************************************************************************)
\* build_node_tree is not run
TreeIdle ==
    /\ in_nodes = <<>>
    /\ tree = <<>>
    /\ ptr = 0
    /\ tree_idx = 0
    /\ tree_result = "idle"

\* parse_copybook is not run
ParseIdle ==
    /\ script = <<>>
    /\ tokens = <<>>
    /\ token_idx = 0
    /\ state = "start"
    /\ level = 0
    /\ node = <<>>
    /\ node_list = <<>>
    /\ parse_result = "idle"
    /\ err_at = 0
    /\ parses = <<>>

\* tokenize is not run
TokIdle ==
    /\ tk_text = <<>>
    /\ tk_pos = 0
    /\ tk_state = "start"
    /\ tk_line = 1
    /\ tk_col = 1
    /\ s_token = <<>>
    /\ tk_tokens = <<>>
    /\ tk_result = "idle"

\* no Parser is made
ParserIdle ==
    /\ p_tokens = <<>>
    /\ token_ptr = 0
    /\ curr_token = <<>>
    /\ next_token = <<>>
    /\ ms = <<>>
    /\ ms_result = "idle"

\* nothing is serialized
DictIdle ==
    /\ dict_nodes = <<>>
    /\ dict_mode = "flat"
    /\ dict_tree = <<>>
    /\ dict_idx = 0
    /\ dict_out = <<>>
    /\ dict_result = "idle"

\* decode is not run
PicIdle ==
    /\ pic = <<>>
    /\ pic_tokens = <<>>
    /\ pic_idx = 1
    /\ pic_state = "begin"
    /\ picture = NewPicture
    /\ pic_result = "idle"

\* the Lexer of a new PictureDecoder, parse not called
LexIdle ==
    /\ rules = PictureRules
    /\ lexer_data = <<>>
    /\ lexer_tokens = <<>>
    /\ lx_arg = <<>>
    /\ curr_pos = 1
    /\ lx_result = "idle"
    /\ lx_message = <<>>
    /\ lx_calls = 0

(***************************************************************************)
(* Lexer.parse, step by step, on a Lexer with the rules of PictureDecoder  *)
(* or with rules that overlap: a single X registered before the X run, and *)
(* a whitespace rule.  The Lexer is made with data None, '' or a text, and *)
(* parse is called MaxCalls times, with '' (or None) or a text.            *)
(***************************************************************************)
OverlapRules ==
    << [Rule("ws", "\\s+", 0, FALSE) EXCEPT !.is_ws = TRUE],
       Rule("one_x", "X", 0, FALSE),
       Rule("X", "X+", 0, FALSE),
       Rule("len", "\\((\\d+)\\)", 1, FALSE),
       Rule("eol", "", 0, TRUE) >>

\* rules with a whitespace rule whose pattern also matches the empty text
NullableRules ==
    << [Rule("ws", "\\s*", 0, FALSE) EXCEPT !.is_ws = TRUE],
       Rule("X", "X+", 0, FALSE),
       Rule("eol", "", 0, TRUE) >>

RuleSets == {PictureRules, OverlapRules, NullableRules}

LexPieces ==
    { <<"X">>, <<"X", "X">>, <<"x">>, <<"9">>, <<"(", "0", "3", ")">>, <<" ">>, <<"\n">>, <<"Q">> }

RECURSIVE LexTextsOf(_)
LexTextsOf(n) ==
    IF n = 0 THEN {<<>>}
    ELSE LET shorter == LexTextsOf(n - 1) IN
         shorter \cup {t \o q : t \in shorter, q \in LexPieces}

\* an unmatched character with more than ten characters after it, on line 2
Lex_Long == <<"X", "\n", "X", "Q", "X", "X", "X", "X", "X", "X", "X", "X", "X", "X", "X">>

LexTexts == LexTextsOf(MaxLexPieces) \cup {Pic_9_05, Lex_Long}

\* Lexer(data): the data the Lexer is made with
ConstructorData == {<<>>, <<(<<>>)>>, <<(<<"X", "X">>)>>}

LexInit ==
    /\ TokIdle
    /\ DictIdle
    /\ ParserIdle
    /\ PicIdle
    /\ TreeIdle
    /\ ParseIdle
    /\ rules \in RuleSets
    /\ lexer_data \in ConstructorData
    /\ lexer_tokens = <<>>
    /\ lx_arg = <<>>
    /\ curr_pos = 1
    /\ lx_result = "idle"
    /\ lx_message = <<>>
    /\ lx_calls = 0

\* parse(data) up to curr_pos = 0
LexCall ==
    /\ lx_result # "running"
    /\ lx_calls < MaxCalls
    /\ \E arg \in LexTexts :
          /\ lx_arg' = arg
          /\ lexer_data' = IF arg # <<>> THEN <<arg>> ELSE lexer_data
          /\ lexer_tokens' = IF arg # <<>> THEN <<>> ELSE lexer_tokens
    /\ lx_result' = IF lexer_data' = <<>> THEN "TypeError" ELSE "running"   \* break_lines
    /\ curr_pos' = 1
    /\ lx_message' = <<>>
    /\ lx_calls' = lx_calls + 1
    /\ UNCHANGED <<rules, lexer_frame>>

\* a pass of the inner loop in which some rule matches: the token of the
\* longest match is added, and at the end of the data the EOF token; then
\* self.tokens is returned
LexMatch ==
    /\ lx_result = "running"
    /\ curr_pos <= Len(lexer_data[1])
    /\ Len(Matched(rules, 1, lexer_data[1], curr_pos)) > 0
    /\ \E matched \in {Matched(rules, 1, lexer_data[1], curr_pos)} :
        \E index \in {Longest(matched, 1, 0, 1)} :
          LET rule == rules[matched[index][1]]
              n == matched[index][2]
              token == [enum |-> rule.enum,
                        text |-> ReGroup(rule.regex, rule.group, lexer_data[1], curr_pos, n)]
              added == IF ~(rule.is_ws \/ rule.is_comment)
                       THEN Append(lexer_tokens, token) ELSE lexer_tokens
          IN
          IF find_line_col(break_lines(lexer_data[1]), curr_pos - 1) = <<>>
          THEN /\ lx_result' = "TypeError"
               /\ UNCHANGED <<lexer_tokens, curr_pos>>
          ELSE /\ curr_pos' = curr_pos + n
               /\ IF curr_pos + n > Len(lexer_data[1])
                  THEN /\ lexer_tokens' =
                            IF EofRule(rules) # <<>>
                            THEN Append(added, [enum |-> EofRule(rules)[1].enum, text |-> EofText])
                            ELSE added
                       /\ lx_result' = "returned"
                  ELSE /\ lexer_tokens' = added
                       /\ lx_result' = "running"
    /\ UNCHANGED <<rules, lexer_data, lx_arg, lx_message, lx_calls, lexer_frame>>

\* a pass of the inner loop in which no rule matches: raise ParserError(message)
LexNoMatch ==
    /\ lx_result = "running"
    /\ curr_pos <= Len(lexer_data[1])
    /\ Len(Matched(rules, 1, lexer_data[1], curr_pos)) = 0
    /\ IF find_line_col(break_lines(lexer_data[1]), curr_pos - 1) = <<>>
       THEN /\ lx_result' = "TypeError"
            /\ lx_message' = <<>>
       ELSE /\ lx_result' = "ParserError"
            /\ lx_message' = <<ParserErrorMessage(lexer_data[1], curr_pos)>>
    /\ UNCHANGED <<rules, lexer_data, lexer_tokens, lx_arg, curr_pos, lx_calls, lexer_frame>>

\* the outer loop is not entered (self.data is ''): parse returns None
LexSkipLoop ==
    /\ lx_result = "running"
    /\ curr_pos > Len(lexer_data[1])
    /\ lx_result' = "returned_none"
    /\ UNCHANGED <<rules, lexer_data, lexer_tokens, lx_arg, curr_pos, lx_message, lx_calls,
                   lexer_frame>>

LexNext ==
    \/ LexCall
    \/ LexMatch
    \/ LexNoMatch
    \/ LexSkipLoop

SpecLexer == LexInit /\ [][LexNext]_vars

\* a call of parse, once made, goes on running: its loop passes are taken as
\* long as one can change the state; nothing makes a caller call parse
LexRun ==
    \/ LexMatch
    \/ LexNoMatch
    \/ LexSkipLoop

SpecLexerRun == SpecLexer /\ WF_vars(LexRun)

\* the texts decode is called with on a PictureDecoder that has decoded before
RepeatPics == {<<>>} \cup NamedPics

\* decode(pic) is called on a new PictureDecoder
PicInit ==
    /\ TokIdle
    /\ DictIdle
    /\ ParserIdle
    /\ TreeIdle
    /\ ParseIdle
    /\ LexIdle
    /\ pic \in PicTexts(MaxPieces) \cup NamedPics
    /\ pic_tokens = <<>>
    /\ pic_idx = 1
    /\ pic_state = "begin"
    /\ picture = NewPicture
    /\ pic_result = "start"

\* tokens = self.lexer.parse(pic)
DecodeLex ==
    /\ pic_result = "start"
    /\ \E lx \in {LexerCall(rules, lexer_data, lexer_tokens, pic)} :
       /\ lexer_data' = lx.data
       /\ lexer_tokens' = lx.tokens
       /\ pic_tokens' = IF lx.err = "" THEN lx.tokens ELSE <<>>
       /\ pic_result' = IF lx.err = "" THEN "running"
                        ELSE IF lx.err = "returned_none" THEN "TypeError"   \* len(None)
                        ELSE lx.err
    /\ lx_calls' = lx_calls + 1
    /\ UNCHANGED <<pic, pic_idx, pic_state, picture, tree_vars, parse_vars, tok_vars, dict_vars,
                   parser_vars,
                   rules, lx_arg, curr_pos, lx_result, lx_message>>

\* one pass of the while loop
DecodePass ==
    /\ pic_result = "running"
    /\ pic_idx <= Len(pic_tokens)
    /\ LET r == DecodeBody(pic_tokens, pic_idx, pic_state, picture) IN
       /\ pic_state' = r.state
       /\ picture' = r.picture
       /\ pic_idx' = IF r.ret = "" THEN r.idx + 1 ELSE r.idx
       /\ pic_result' = IF r.ret = "" THEN "running" ELSE r.ret
    /\ UNCHANGED <<pic, pic_tokens, pic_frame>>

DecodeBegin ==
    /\ pic_state = "begin"
    /\ DecodePass

DecodeSingleX ==
    /\ pic_state = "single_x"
    /\ DecodePass

DecodeSingle9 ==
    /\ pic_state = "single_9"
    /\ DecodePass

DecodeWaitFixedPoint ==
    /\ pic_state = "wait_fixed_point"
    /\ DecodePass

DecodeWaitEol ==
    /\ pic_state = "wait_eol"
    /\ DecodePass

\* the loop condition fails: return picture
DecodeReturn ==
    /\ pic_result = "running"
    /\ pic_idx > Len(pic_tokens)
    /\ pic_result' = "picture"
    /\ UNCHANGED <<pic, pic_tokens, pic_idx, pic_state, picture, pic_frame>>

\* decode is called again on the same PictureDecoder
DecodeAgain ==
    /\ pic_result \notin {"idle", "start", "running"}
    /\ lx_calls < MaxCalls
    /\ pic' \in RepeatPics
    /\ pic_tokens' = <<>>
    /\ pic_idx' = 1
    /\ pic_state' = "begin"
    /\ picture' = NewPicture
    /\ pic_result' = "start"
    /\ UNCHANGED pic_frame

PicNext ==
    \/ DecodeAgain
    \/ DecodeLex
    \/ DecodeBegin
    \/ DecodeSingleX
    \/ DecodeSingle9
    \/ DecodeWaitFixedPoint
    \/ DecodeWaitEol
    \/ DecodeReturn

SpecPicture == PicInit /\ [][PicNext]_vars

\* decode has returned or raised
PicDone == pic_result \notin {"idle", "start", "running"}

(***************************************************************************)
(* Claims about PictureDecoder.decode.                                     *)
(***************************************************************************)

\* C3: decode returns None, and raises nothing, for every non-empty text that
\* is not an accepted picture: a finished decode has returned a Picture or None.
C3_NoneNeverRaises == (PicDone /\ pic # <<>>) => pic_result \in {"picture", "none"}

\* a run of n nines
RECURSIVE Nines(_)
Nines(n) == IF n = 0 THEN <<>> ELSE <<"9">> \o Nines(n - 1)

\* the ways to write a part of n digit positions: a run of n nines, or 9(n)
DigitParts ==
    {[text |-> Nines(n), n |-> n] : n \in 1..3} \cup
    { [text |-> <<"9", "(", "0", "3", ")">>, n |-> 3],
      [text |-> <<"9", "(", "5", ")">>, n |-> 5],
      [text |-> <<"9", "(", "0", "2", ")">>, n |-> 2] }

NoPart == [text |-> <<>>, n |-> 0]

\* optional S, integer part of i positions, optional V and fraction part of f
\* positions
NumericFamily ==
    { [text |-> (IF s THEN <<"S">> ELSE <<>>) \o ip.text \o (IF v THEN <<"V">> ELSE <<>>) \o fp.text,
       signed |-> s, i |-> ip.n, f |-> fp.n, v |-> v] :
        s \in BOOLEAN, v \in BOOLEAN,
        ip \in DigitParts \cup {NoPart}, fp \in DigitParts \cup {NoPart} }

IsNumeric(m) ==
    /\ pic_result = "picture"
    /\ picture.picture_type = "numeric"
    /\ picture.signed = m.signed
    /\ picture.scale = m.f
    /\ picture.length = m.i + m.f

\* C4: for every numeric picture [S] integer-part [V fraction-part] with i + f
\* >= 1 digit positions (V written exactly when there is a fraction part) decode
\* returns kind numeric, signed = (S present), scale = f and length = i + f.
C4_NumericPicture ==
    \A m \in NumericFamily :
        (PicDone /\ pic = m.text /\ m.i + m.f >= 1 /\ (m.v <=> m.f >= 1))
            => IsNumeric(m)

IsString(n) ==
    /\ pic_result = "picture"
    /\ picture.picture_type = "string"
    /\ picture.signed = FALSE
    /\ picture.scale = 0
    /\ picture.length = n

\* the tokens of pic start with a string picture whose length is fixed (a run
\* of two or more X, or a single X and a count) and another token than the end
\* marker follows
TokenAfterFixedLength ==
    \/ /\ Len(pic_tokens) >= 2
       /\ pic_tokens[1].enum = "X" /\ Len(pic_tokens[1].text) >= 2
       /\ pic_tokens[2].enum # "eol"
    \/ /\ Len(pic_tokens) >= 3
       /\ pic_tokens[1].enum = "X" /\ Len(pic_tokens[1].text) = 1
       /\ pic_tokens[2].enum = "len"
       /\ pic_tokens[3].enum # "eol"

\* C5: a single X decodes to a string of length 1, a run of k >= 2 X to length
\* k, X(n) to length n, each unsigned with scale 0; a token other than the end
\* marker after the length is fixed makes decode return None.
C5_StringPicture ==
    PicDone =>
        /\ pic = <<"X">> => IsString(1)
        /\ \A k \in 2..(2 * MaxPieces) : pic = [j \in 1..k |-> "X"] => IsString(k)
        /\ pic = <<"X", "(", "0", "3", ")">> => IsString(3)
        /\ pic = Pic_X20 => IsString(20)
        /\ (pic_result # "ParserError" /\ TokenAfterFixedLength) => pic_result = "none"

\* X(20) has been decoded, and so has a picture with a token after its length
C5_Witness ==
    \/ PicDone /\ pic = Pic_X20 /\ picture.length = 20
    \/ PicDone /\ pic = <<"X", "(", "0", "3", ")", "X">> /\ pic_result = "none"

\* C16: a Picture returned by decode has kind string or numeric, length >= 0
\* and scale <= length, and a string Picture has scale 0 and is unsigned; during
\* a decode the kind, once set, does not change.
C16_DescriptorInvariants ==
    [][ /\ pic_result' = "picture"
           => /\ picture'.picture_type \in {"string", "numeric"}
              /\ picture'.length >= 0
              /\ picture'.scale <= picture'.length
              /\ picture'.picture_type = "string"
                    => (picture'.scale = 0 /\ picture'.signed = FALSE)
        /\ (pic_result = "running" /\ picture.picture_type # "none")
           => picture'.picture_type = picture.picture_type ]_vars

\* a numeric Picture with a fraction part has been returned
C16_Witness ==
    /\ pic_result = "picture"
    /\ picture.picture_type = "numeric"
    /\ picture.scale >= 1

(***************************************************************************)
(* copybook.py: TreeNode, build_node_tree.                                 *)
(* A TreeNode is [node, level, parent, children]: node is the position of  *)
(* its Node in node_list (0 for the dummy 'Root' Node), level that Node's  *)
(* node_level, parent and children are indices into tree, parent 0 being   *)
(* None.                                                                   *)
(***************************************************************************)
\* a TreeNode that keeps no reference to its parent
TreeNode_orphan(nd, lv, parent) ==
    [node |-> nd, level |-> lv, parent |-> 0, children |-> <<>>]

\* TreeNode(node, parent)
TreeNode(nd, lv, parent) ==
    [node |-> nd, level |-> lv, parent |-> parent, children |-> <<>>]

\* the new TreeNode put in front of the children of parent
Attach_first(t, p, parent, nd, lv) ==
    IF parent = 0 THEN [tree |-> t, ptr |-> p, err |-> "AttributeError"]
    ELSE LET new == Len(t) + 1 IN
         [tree |-> [Append(t, TreeNode(nd, lv, parent))
                       EXCEPT ![parent].children = <<new>> \o @],
          ptr |-> new, err |-> ""]

\* new_node = TreeNode(node, parent); parent.append(new_node); ptr = new_node.
\* parent None has no append: AttributeError.
Attach(t, p, parent, nd, lv) ==
    IF parent = 0 THEN [tree |-> t, ptr |-> p, err |-> "AttributeError"]
    ELSE LET new == Len(t) + 1 IN
         [tree |-> [Append(t, TreeNode(nd, lv, parent))
                       EXCEPT ![parent].children = Append(@, new)],
          ptr |-> new, err |-> ""]

\* the while loop of the search up the chain, from search on: the TreeNode it
\* stops at (0: the loop went past a TreeNode without parent)
RECURSIVE SearchUp(_, _, _)
SearchUp(t, search, lv) ==
    IF search = 0 THEN 0
    ELSE IF t[search].level # 0 /\ t[search].level # lv
         THEN SearchUp(t, t[search].parent, lv)
         ELSE search

\* the branch for a node with a level number lower than ptr, attaching below search
AttachLower_search(t, p, nd, lv) ==
    LET search == SearchUp(t, t[p].parent, lv) IN
    IF search = 0 THEN [tree |-> t, ptr |-> p, err |-> "AttributeError"]
    ELSE IF t[search].level = 0 THEN [tree |-> t, ptr |-> p, err |-> "CopybookException"]
    ELSE Attach(t, p, search, nd, lv)

\* the branch for a node with a level number lower than ptr
AttachLower(t, p, nd, lv) ==
    LET search == SearchUp(t, t[p].parent, lv) IN
    IF search = 0 THEN [tree |-> t, ptr |-> p, err |-> "AttributeError"]
    ELSE IF t[search].level = 0 THEN [tree |-> t, ptr |-> p, err |-> "CopybookException"]
    ELSE Attach(t, p, t[search].parent, nd, lv)

\* the body of the for loop, for the Node at position node with node_level level
BuildBody(t, p, nd, lv) ==
    IF lv > t[p].level THEN Attach(t, p, p, nd, lv)
    ELSE IF lv = t[p].level THEN Attach(t, p, t[p].parent, nd, lv)
    ELSE AttachLower(t, p, nd, lv)

(***************************************************************************)
(* build_node_tree, step by step.                                          *)
(***************************************************************************)
Levels == 0..MaxLevel

RECURSIVE LevelLists(_)
LevelLists(n) ==
    IF n = 0 THEN {<<>>}
    ELSE LET shorter == LevelLists(n - 1) IN
         shorter \cup {Append(l, v) : l \in shorter, v \in Levels}

\* root = TreeNode(Node('Root', 0, N_RECORD), None); ptr = root
TreeInit ==
    /\ TokIdle
    /\ DictIdle
    /\ ParserIdle
    /\ PicIdle
    /\ ParseIdle
    /\ LexIdle
    /\ in_nodes \in LevelLists(MaxNodes)
    /\ tree = <<TreeNode(0, 0, 0)>>
    /\ ptr = 1
    /\ tree_idx = 1
    /\ tree_result = "running"

\* one pass of the for loop
BuildPass ==
    /\ tree_result = "running"
    /\ tree_idx <= Len(in_nodes)
    /\ LET r == BuildBody(tree, ptr, tree_idx, in_nodes[tree_idx]) IN
       /\ tree' = r.tree
       /\ ptr' = r.ptr
       /\ tree_result' = IF r.err = "" THEN "running" ELSE r.err
       /\ tree_idx' = IF r.err = "" THEN tree_idx + 1 ELSE tree_idx
    /\ UNCHANGED <<in_nodes, tree_frame>>

\* node.node_level > ptr.node.node_level
BuildChild ==
    /\ tree_idx <= Len(in_nodes)
    /\ in_nodes[tree_idx] > tree[ptr].level
    /\ BuildPass

\* node.node_level == ptr.node.node_level
BuildSibling ==
    /\ tree_idx <= Len(in_nodes)
    /\ in_nodes[tree_idx] = tree[ptr].level
    /\ BuildPass

\* node.node_level < ptr.node.node_level
BuildLower ==
    /\ tree_idx <= Len(in_nodes)
    /\ in_nodes[tree_idx] < tree[ptr].level
    /\ BuildPass

\* return root
BuildReturn ==
    /\ tree_result = "running"
    /\ tree_idx > Len(in_nodes)
    /\ tree_result' = "returned"
    /\ UNCHANGED <<in_nodes, tree, ptr, tree_idx, tree_frame>>

TreeNext ==
    \/ BuildChild
    \/ BuildSibling
    \/ BuildLower
    \/ BuildReturn

SpecTree == TreeInit /\ [][TreeNext]_vars

(***************************************************************************)
(* Claims about build_node_tree.                                           *)
(***************************************************************************)
\* the proper ancestors of TreeNode i, nearest first
RECURSIVE Ancestors(_, _)
Ancestors(t, i) ==
    IF t[i].parent = 0 THEN <<>> ELSE <<t[i].parent>> \o Ancestors(t, t[i].parent)

\* the nearest ancestor of i with the given level, or 0
NearestWithLevel(t, i, lv) ==
    LET a == Ancestors(t, i)
        S == {k \in 1..Len(a) : t[a[k]].level = lv}
    IN IF S = {} THEN 0 ELSE a[CHOOSE k \in S : \A j \in S : k <= j]

\* this step made the Node at tree_idx the last child of parent, and the cursor
AttachedTo(parent) ==
    /\ parent # 0
    /\ Len(tree') = Len(tree) + 1
    /\ tree'[Len(tree')] = TreeNode(tree_idx, in_nodes[tree_idx], parent)
    /\ tree'[parent].children = Append(tree[parent].children, Len(tree'))
    /\ \A i \in 1..Len(tree) : i # parent => tree'[i] = tree[i]
    /\ ptr' = Len(tree')

\* a pass of the for loop is about to run
BuildEnabled == tree_result = "running" /\ tree_idx <= Len(in_nodes)

\* C7: a Node n met with cursor c becomes the last child of c when n.level >
\* c.level, of c's parent when the levels are equal, and of the parent of the
\* nearest ancestor of c with level n.level when n.level < c.level and there is
\* such an ancestor; the cursor then is n.
C7_Attachment ==
    [][ BuildEnabled =>
          LET n == in_nodes[tree_idx]
              c == tree[ptr]
              a == NearestWithLevel(tree, ptr, n)
          IN /\ n > c.level => AttachedTo(ptr)
             /\ n = c.level => AttachedTo(c.parent)
             /\ (n < c.level /\ a # 0) => AttachedTo(tree[a].parent) ]_vars

\* C8: every child's level is greater than its parent's, the children of one
\* parent share one level, and the only TreeNode without parent is the
\* synthetic level-0 root.
C8_TreeShape ==
    tree_result # "idle" =>
        /\ \A i \in 1..Len(tree) :
              /\ tree[i].parent # 0 => tree[i].level > tree[tree[i].parent].level
              /\ \A j, k \in 1..Len(tree[i].children) :
                    tree[tree[i].children[j]].level = tree[tree[i].children[k]].level
              /\ \A j \in 1..Len(tree[i].children) : tree[tree[i].children[j]].parent = i
        /\ {i \in 1..Len(tree) : tree[i].parent = 0} = {1}
        /\ tree[1].level = 0 /\ tree[1].node = 0

\* a returned tree in which a Node was attached beside an ancestor found by
\* the search: some TreeNode has two children and one of them has a grandchild
C8_Witness ==
    /\ tree_result = "returned"
    /\ \E i \in 1..Len(tree) :
          /\ Len(tree[i].children) >= 2
          /\ \E j \in 1..Len(tree) :
                tree[j].parent # 0 /\ tree[tree[j].parent].parent = tree[i].children[1]

\* C9: build_node_tree fails exactly when it meets a Node whose level is lower
\* than the cursor's and that no ancestor of the cursor below the root has, and
\* then with CopybookException; otherwise it goes on and returns the root.
C9_FailsOnlyWithoutAncestor ==
    [][ tree_result = "running" =>
          IF tree_idx <= Len(in_nodes)
          THEN LET n == in_nodes[tree_idx]
                   a == NearestWithLevel(tree, ptr, n)
               IN IF n < tree[ptr].level /\ (a = 0 \/ a = 1)
                  THEN tree_result' = "CopybookException"
                  ELSE tree_result' = "running"
          ELSE tree_result' = "returned" ]_vars

\* the Nodes met by a depth-first pre-order walk of the TreeNodes listed in
\* kids (children in list order), as positions in the input list
RECURSIVE PreOrder(_, _)
PreOrder(t, kids) ==
    IF kids = <<>> THEN <<>>
    ELSE <<t[kids[1]].node>> \o PreOrder(t, t[kids[1]].children) \o PreOrder(t, Tail(kids))

\* C27: when build_node_tree returns, the pre-order walk of the root's
\* descendants meets the Nodes of the input list, each once and in the order of
\* the list, each TreeNode holding its Node with the Node's level; no step
\* changes the input list.
C27_PreOrderIsInput ==
    [][ /\ in_nodes' = in_nodes
        /\ tree_result' = "returned" =>
              /\ PreOrder(tree', tree'[1].children) = [i \in 1..Len(in_nodes) |-> i]
              /\ \A i \in 2..Len(tree') : tree'[i].level = in_nodes[tree'[i].node] ]_vars

\* the tree of five Nodes with levels 1 2 2 1 2 was returned
C27_Witness ==
    /\ tree_result = "returned"
    /\ in_nodes = <<1, 2, 2, 1, 2>>
    /\ Len(tree) = 6

\* the TreeNode reached from i by following parent k times (0: none)
RECURSIVE ParentIter(_, _, _)
ParentIter(t, i, k) ==
    IF k = 0 \/ i = 0 THEN i ELSE ParentIter(t, t[i].parent, k - 1)

\* the places <<j, k>> where TreeNode i is listed as a child
ListedAt(t, i) ==
    {jk \in (1..Len(t)) \X (1..Len(t)) :
        jk[2] <= Len(t[jk[1]].children) /\ t[jk[1]].children[jk[2]] = i}

\* C28: after every step the cursor is the TreeNode attached last (the root
\* before any is attached) and has no children; every TreeNode but the root is
\* listed exactly once as a child, in the list of the TreeNode its parent field
\* refers to; following parent from any TreeNode reaches the root.
C28_CursorAndParents ==
    tree_result # "idle" =>
        /\ ptr = Len(tree)
        /\ tree[ptr].children = <<>>
        /\ \A i \in 2..Len(tree) :
              /\ Cardinality(ListedAt(tree, i)) = 1
              /\ \A jk \in ListedAt(tree, i) : jk[1] = tree[i].parent
        /\ ListedAt(tree, 1) = {}
        /\ \A i \in 1..Len(tree) : \E k \in 0..Len(tree) : ParentIter(tree, i, k) = 1

\* a Node was attached beside an ancestor of the cursor: the cursor is the
\* third child of the root, and the second child has a child
C28_Witness ==
    /\ tree_result = "running"
    /\ Len(tree[1].children) = 3
    /\ ptr = tree[1].children[3]
    /\ tree[tree[1].children[2]].children # <<>>

(***************************************************************************)
(* copybook.py: Token, Node, parse_copybook.                               *)
(* A Token is [enum, text]; enum is "text", "." or "eof".                  *)
(***************************************************************************)
LowerCase == <<"a", "b", "c", "d", "e", "f", "g", "h", "i", "j", "k", "l", "m",
               "n", "o", "p", "q", "r", "s", "t", "u", "v", "w", "x", "y", "z">>
UpperCase == <<"A", "B", "C", "D", "E", "F", "G", "H", "I", "J", "K", "L", "M",
               "N", "O", "P", "Q", "R", "S", "T", "U", "V", "W", "X", "Y", "Z">>

\* str.upper, on the characters of the model
UpperChar(c) ==
    IF \E i \in 1..26 : LowerCase[i] = c
    THEN UpperCase[CHOOSE i \in 1..26 : LowerCase[i] = c]
    ELSE c

\* Token.up_text
Upper(text) == [i \in 1..Len(text) |-> UpperChar(text[i])]

\* the words consume compares token texts with
W ==
    [ eject |-> <<"E", "J", "E", "C", "T">>,
      redefines |-> <<"R", "E", "D", "E", "F", "I", "N", "E", "S">>,
      occurs |-> <<"O", "C", "C", "U", "R", "S">>,
      pic |-> <<"P", "I", "C">>,
      picture |-> <<"P", "I", "C", "T", "U", "R", "E">>,
      value |-> <<"V", "A", "L", "U", "E">>,
      usage |-> <<"U", "S", "A", "G", "E">>,
      display |-> <<"D", "I", "S", "P", "L", "A", "Y">>,
      binary |-> <<"B", "I", "N", "A", "R", "Y">>,
      comp_3 |-> <<"C", "O", "M", "P", "-", "3">>,
      computational_3 |-> <<"C", "O", "M", "P", "U", "T", "A", "T", "I", "O", "N", "A", "L", "-", "3">>,
      indexed |-> <<"I", "N", "D", "E", "X", "E", "D">>,
      times |-> <<"T", "I", "M", "E", "S">>,
      is |-> <<"I", "S">>,
      by |-> <<"B", "Y">> ]

\* the text of the EOF token tokenize appends
EofTokenText == <<"(", "e", "o", "f", ")">>

TextToken(text) == [enum |-> "text", text |-> text]
PeriodToken == [enum |-> ".", text |-> <<".">>]
EofToken == [enum |-> "eof", text |-> EofTokenText]

\* re_int.match(text): r'\d+' matches a prefix
ReIntMatch(text) == Len(text) >= 1 /\ text[1] \in Digits

\* int(text) raises ValueError unless text is decimal digits
IsDecimal(text) == Len(text) >= 1 /\ \A i \in 1..Len(text) : text[i] \in Digits

\* re_identifier.match(text): r'[A-Za-z\d_\-]+' matches a prefix
ReIdentifierMatch(text) ==
    /\ Len(text) >= 1
    /\ \/ text[1] \in Digits
       \/ text[1] \in {"_", "-"}
       \/ \E i \in 1..26 : text[1] = LowerCase[i] \/ text[1] = UpperCase[i]

\* re_string.match(text) for r"\'([^']+)\'": the length of the match, 0 for none
ReStringMatch(text) ==
    IF Len(text) >= 3 /\ text[1] = "'"
    THEN LET S == {i \in 2..Len(text) : text[i] = "'"} IN
         IF S = {} THEN 0
         ELSE LET close == CHOOSE i \in S : \A j \in S : i <= j IN
              IF close >= 3 THEN close ELSE 0
    ELSE 0

\* value_text of the S_VALUE and S_ENUM states: match.group(0), or token.text
ValueText(text) ==
    IF ReStringMatch(text) > 0 THEN SubSeq(text, 1, ReStringMatch(text)) ELSE text

\* Node(name, level, node_type)
Node(name, lv, node_type) ==
    [node_name |-> name, node_type |-> node_type, node_level |-> lv,
     redefines |-> <<>>, occurs |-> 1, node_picture |-> <<>>, usage |-> "none",
     enum_set |-> <<>>, indexed_by |-> <<>>]

\* decode_usage: "" for None
decode_usage(u) ==
    IF u = W.display THEN "display"
    ELSE IF u = W.binary THEN "binary"
    ELSE IF u \in {W.comp_3, W.computational_3} THEN "packed"
    ELSE ""

\* the outcome of one pass of consume's loop body, before token_idx += 1; ret
\* is "" (go on), "return" or the exception raised.  c is the context the pass
\* started with: [state, level, node, node_list, idx].  at is the index of the
\* token whose line and col a CopybookException's message is formatted with.
Ctx(st, lv, nd, nl, idx) ==
    [state |-> st, level |-> lv, node |-> nd, node_list |-> nl, idx |-> idx, ret |-> "",
     at |-> 0]
Raise(c, exc) ==
    [c EXCEPT !.ret = exc, !.at = IF exc = "CopybookException" THEN c.idx ELSE 0]

\* S_START state
consume_S_START(toks, c) ==
    LET token == toks[c.idx] IN
    IF Upper(token.text) = W.eject THEN [c EXCEPT !.state = "start"]
    ELSE IF token.enum = "text" /\ ReIntMatch(token.text)
         THEN IF IsDecimal(token.text)
              THEN [c EXCEPT !.level = IntOf(token.text), !.state = "sentence"]
              ELSE Raise(c, "ValueError")
    ELSE IF token.enum = "eof" THEN [c EXCEPT !.ret = "return"]
    ELSE Raise(c, "CopybookException")

\* S_SENTENCE state
consume_S_SENTENCE(toks, c) ==
    LET token == toks[c.idx] IN
    IF token.enum = "text" /\ ReIdentifierMatch(token.text)
    THEN [c EXCEPT !.node = <<Node(token.text, c.level, "none")>>, !.state = "clause"]
    ELSE Raise(c, "CopybookException")

\* the PERIOD branch of S_CLAUSE taking every node without a picture for a record
Typed_record(nd) ==
    [nd EXCEPT !.node_type = IF nd.node_picture # <<>> THEN "picture" ELSE "record"]

\* the PERIOD branch of S_CLAUSE: node.node_type = node_type
Typed(nd) ==
    LET node_type == IF nd.node_picture # <<>> THEN "picture"
                     ELSE IF nd.enum_set # <<>> THEN "enum"
                     ELSE "record"
    IN [nd EXCEPT !.node_type = node_type]

\* the PERIOD branch of S_CLAUSE putting the node in front of node_list
Finalize_front(nd, nl) == <<Typed(nd)>> \o nl

\* the PERIOD branch of S_CLAUSE: node_list.append(node)
Finalize(nd, nl) == Append(nl, Typed(nd))

\* S_CLAUSE state
consume_S_CLAUSE(toks, c) ==
    LET token == toks[c.idx]
        up_text == Upper(token.text)
    IN
    IF token.enum = "." THEN [c EXCEPT !.node = <<Typed(c.node[1])>>,
                                       !.node_list = Finalize(c.node[1], c.node_list),
                                       !.state = "start"]
    ELSE IF up_text = W.redefines THEN [c EXCEPT !.state = "redefines"]
    ELSE IF up_text = W.occurs THEN [c EXCEPT !.state = "occurs"]
    ELSE IF up_text \in {W.pic, W.picture} THEN [c EXCEPT !.state = "picture"]
    ELSE IF up_text = W.value THEN [c EXCEPT !.state = "value"]
    ELSE IF up_text = W.usage THEN [c EXCEPT !.state = "usage"]
    ELSE IF up_text \in {W.display, W.binary, W.comp_3, W.computational_3}
         THEN IF decode_usage(up_text) = "" THEN Raise(c, "CopybookException")
              ELSE [c EXCEPT !.node[1].usage = decode_usage(up_text), !.state = "clause"]
    ELSE IF token.text = W.indexed THEN [c EXCEPT !.state = "indexed"]
    ELSE Raise(c, "CopybookException")

\* S_REDEFINES state
consume_S_REDEFINES(toks, c) ==
    LET token == toks[c.idx] IN
    IF token.enum = "text"
    THEN [c EXCEPT !.node[1].redefines = token.text, !.state = "clause"]
    ELSE Raise(c, "CopybookException")

\* S_OCCURS state without the look at the token after the count
consume_S_OCCURS_noskip(toks, c) ==
    LET token == toks[c.idx] IN
    IF token.enum = "text" /\ ReIntMatch(token.text)
    THEN IF ~IsDecimal(token.text) THEN Raise(c, "ValueError")
         ELSE [c EXCEPT !.node[1].occurs = IntOf(token.text), !.state = "clause"]
    ELSE Raise(c, "CopybookException")

\* S_OCCURS state
consume_S_OCCURS(toks, c) ==
    LET token == toks[c.idx] IN
    IF token.enum = "text" /\ ReIntMatch(token.text)
    THEN IF ~IsDecimal(token.text) THEN Raise(c, "ValueError")
         ELSE IF c.idx + 1 > Len(toks)
              THEN [Raise(c, "IndexError") EXCEPT !.node[1].occurs = IntOf(token.text)]
         ELSE [c EXCEPT !.node[1].occurs = IntOf(token.text),
                        !.idx = IF Upper(toks[c.idx + 1].text) = W.times THEN c.idx + 1 ELSE c.idx,
                        !.state = "clause"]
    ELSE Raise(c, "CopybookException")

\* S_PICTURE state, with d the outcome of decoder.decode(token.up_text)
AttachPicture(c, d) ==
    IF d.ret = "picture"
    THEN [c EXCEPT !.node[1].node_picture = <<d.picture>>, !.state = "clause"]
    ELSE IF d.ret = "none" THEN Raise(c, "CopybookException")
    ELSE Raise(c, d.ret)

\* S_PICTURE state
consume_S_PICTURE(toks, c) == AttachPicture(c, decode(Upper(toks[c.idx].text)))

\* S_VALUE state taking the values of a node of any level for an enumeration
consume_S_VALUE_anylevel(toks, c) ==
    LET token == toks[c.idx]
        value_text == ValueText(token.text)
    IN
    IF c.node[1].node_picture # <<>>
    THEN [c EXCEPT !.node[1].node_picture[1].default = value_text]
    ELSE IF c.idx + 1 > Len(toks)
         THEN [Raise(c, "IndexError") EXCEPT !.node[1].enum_set = <<value_text>>]
         ELSE [c EXCEPT !.node[1].enum_set = <<value_text>>,
                        !.state = IF toks[c.idx + 1].enum = "." THEN "clause" ELSE "enum"]

\* S_VALUE state
consume_S_VALUE(toks, c) ==
    LET token == toks[c.idx]
        value_text == ValueText(token.text)
    IN
    IF c.node[1].node_picture # <<>>
    THEN [c EXCEPT !.node[1].node_picture[1].default = value_text]
    ELSE IF c.level = 88
         THEN IF c.idx + 1 > Len(toks)
              THEN [Raise(c, "IndexError") EXCEPT !.node[1].enum_set = <<value_text>>]
              ELSE [c EXCEPT !.node[1].enum_set = <<value_text>>,
                             !.state = IF toks[c.idx + 1].enum = "." THEN "clause" ELSE "enum"]
         ELSE Raise(c, "CopybookException")

\* S_USAGE state
consume_S_USAGE(toks, c) ==
    LET token == toks[c.idx]
        up_text == Upper(token.text)
    IN
    IF up_text = W.is THEN [c EXCEPT !.state = "usage"]
    ELSE IF decode_usage(up_text) = "" THEN Raise(c, "CopybookException")
    ELSE [c EXCEPT !.node[1].usage = decode_usage(up_text), !.state = "clause"]

\* S_ENUM state
consume_S_ENUM(toks, c) ==
    LET token == toks[c.idx]
        value_text == ValueText(token.text)
        appended == [c EXCEPT !.node[1].enum_set = Append(@, value_text)]
    IN
    IF c.idx + 1 > Len(toks) THEN Raise(appended, "IndexError")
    ELSE [appended EXCEPT !.state = IF toks[c.idx + 1].enum = "." THEN "clause" ELSE "enum"]

\* S_INDEXED state
consume_S_INDEXED(toks, c) ==
    LET token == toks[c.idx] IN
    IF token.text = W.by THEN [c EXCEPT !.state = "indexed"]
    ELSE IF token.enum = "text"
         THEN [c EXCEPT !.node[1].indexed_by = token.text, !.state = "clause"]
    ELSE Raise(c, "CopybookException")

\* one pass of the loop body of consume
ConsumeBody(toks, c) ==
    CASE c.state = "start" -> consume_S_START(toks, c)
      [] c.state = "sentence" -> consume_S_SENTENCE(toks, c)
      [] c.state = "clause" -> consume_S_CLAUSE(toks, c)
      [] c.state = "redefines" -> consume_S_REDEFINES(toks, c)
      [] c.state = "occurs" -> consume_S_OCCURS(toks, c)
      [] c.state = "picture" -> consume_S_PICTURE(toks, c)
      [] c.state = "value" -> consume_S_VALUE(toks, c)
      [] c.state = "usage" -> consume_S_USAGE(toks, c)
      [] c.state = "enum" -> consume_S_ENUM(toks, c)
      [] c.state = "indexed" -> consume_S_INDEXED(toks, c)

(***************************************************************************)
(* copybook.py: tokenize.  The locals of a pass of its for loop are        *)
(* k = [state, line, col, tokens, s_token]; a Token here is                *)
(* [enum, text, line, col].                                                *)
(***************************************************************************)
\* Token(enum, text, line, col)
Token(enum, text, line, col) == [enum |-> enum, text |-> text, line |-> line, col |-> col]

\* c in [' ', '\t', '\n']
Whitespace == {" ", "\t", "\n"}

\* if s_token: tokens.append(Token(T_TEXT, s_token, line, col)); s_token = ''
FlushText(k) ==
    IF k.s_token # <<>>
    THEN [k EXCEPT !.tokens = Append(@, Token("text", k.s_token, k.line, k.col)),
                   !.s_token = <<>>]
    ELSE k

\* tokens.append(Token(T_PERIOD, '.', line, col))
AddPeriod(k) == [k EXCEPT !.tokens = Append(@, Token(".", <<".">>, k.line, k.col))]

\* S_START state
tokenize_S_START(c, k) ==
    IF c \in Whitespace
    THEN [(IF c = "\n" THEN [k EXCEPT !.line = @ + 1, !.col = 0] ELSE k) EXCEPT !.state = "ws"]
    ELSE IF c = "." THEN [AddPeriod(FlushText(k)) EXCEPT !.state = "start"]
    ELSE [k EXCEPT !.s_token = Append(@, c)]

\* S_WS state that does not add the text gathered before the whitespace
tokenize_S_WS_noflush(c, k) ==
    IF c \in Whitespace
    THEN [k EXCEPT !.state = "ws", !.line = IF c = "\n" THEN @ + 1 ELSE @]
    ELSE IF c = "." THEN AddPeriod(k)
    ELSE [k EXCEPT !.s_token = <<c>>, !.state = "start"]

\* S_WS state
tokenize_S_WS(c, k) ==
    LET f == FlushText(k) IN
    IF c \in Whitespace
    THEN [f EXCEPT !.state = "ws", !.line = IF c = "\n" THEN @ + 1 ELSE @]
    ELSE IF c = "." THEN AddPeriod(f)
    ELSE [f EXCEPT !.s_token = <<c>>, !.state = "start"]

\* S_PERIOD state (no pass assigns it)
tokenize_S_PERIOD(c, k) == [AddPeriod(FlushText(k)) EXCEPT !.state = "start"]

\* one pass of the for loop of tokenize, on the character c
TokenizeBody(c, k) ==
    LET r == CASE k.state = "start" -> tokenize_S_START(c, k)
               [] k.state = "ws" -> tokenize_S_WS(c, k)
               [] k.state = "period" -> tokenize_S_PERIOD(c, k)
    IN [r EXCEPT !.col = @ + 1]

\* after the loop: append last token, append EOF token
TokenizeTail(k) ==
    LET f == FlushText(k) IN Append(f.tokens, Token("eof", EofTokenText, f.line, f.col))

(***************************************************************************)
(* tokenize, step by step, on every text of at most MaxTokPieces pieces:   *)
(* a letter, two digits, a period, a space, a newline, a tab.              *)
(***************************************************************************)
TokPieces == { <<"A">>, <<"0", "1">>, <<".">>, <<" ">>, <<"\n">>, <<"\t">> }

RECURSIVE TokTexts(_)
TokTexts(n) ==
    IF n = 0 THEN {<<>>}
    ELSE LET shorter == TokTexts(n - 1) IN
         shorter \cup {t \o q : t \in shorter, q \in TokPieces}

\* line = col = 1; state = S_START; tokens = []; s_token = ''
TokInit ==
    /\ PicIdle
    /\ TreeIdle
    /\ LexIdle
    /\ ParseIdle
    /\ DictIdle
    /\ ParserIdle
    /\ tk_text \in TokTexts(MaxTokPieces)
    /\ tk_pos = 1
    /\ tk_state = "start"
    /\ tk_line = 1
    /\ tk_col = 1
    /\ s_token = <<>>
    /\ tk_tokens = <<>>
    /\ tk_result = "running"

\* one pass of the for loop
TokenizePass ==
    /\ tk_result = "running"
    /\ tk_pos <= Len(tk_text)
    /\ \E r \in {TokenizeBody(tk_text[tk_pos],
                               [state |-> tk_state, line |-> tk_line, col |-> tk_col,
                                tokens |-> tk_tokens, s_token |-> s_token])} :
          /\ tk_state' = r.state
          /\ tk_line' = r.line
          /\ tk_col' = r.col
          /\ tk_tokens' = r.tokens
          /\ s_token' = r.s_token
    /\ tk_pos' = tk_pos + 1
    /\ UNCHANGED <<tk_text, tk_result, tok_frame>>

TokenizeStart ==
    /\ tk_state = "start"
    /\ TokenizePass

TokenizeWs ==
    /\ tk_state = "ws"
    /\ TokenizePass

\* the loop is over: the last TEXT token and the EOF token are added; return tokens
TokenizeReturn ==
    /\ tk_result = "running"
    /\ tk_pos > Len(tk_text)
    /\ tk_tokens' = TokenizeTail([state |-> tk_state, line |-> tk_line, col |-> tk_col,
                                  tokens |-> tk_tokens, s_token |-> s_token])
    /\ s_token' = <<>>
    /\ tk_result' = "returned"
    /\ UNCHANGED <<tk_text, tk_pos, tk_state, tk_line, tk_col, tok_frame>>

TokNext ==
    \/ TokenizeStart
    \/ TokenizeWs
    \/ TokenizeReturn

SpecTokenize == TokInit /\ [][TokNext]_vars

(***************************************************************************)
(* Claims about tokenize.                                                  *)
(***************************************************************************)
\* a character of a TEXT token
WordChar(c) == c \notin Whitespace \cup {"."}

\* the positions of tk_text where a token begins: every period, and every
\* first character of a run of word characters
Starts ==
    {i \in 1..Len(tk_text) :
        \/ tk_text[i] = "."
        \/ WordChar(tk_text[i]) /\ (i = 1 \/ ~WordChar(tk_text[i - 1]))}

\* the k-th position of Starts
NthStart(k) == CHOOSE i \in Starts : Cardinality({j \in Starts : j < i}) = k - 1

\* the last position of the run of word characters that begins at i
RunEnd(i) ==
    CHOOSE j \in i..Len(tk_text) :
        /\ \A m \in i..j : WordChar(tk_text[m])
        /\ j = Len(tk_text) \/ ~WordChar(tk_text[j + 1])

\* the text of the token that begins at i
Lexeme(i) == IF tk_text[i] = "." THEN <<".">> ELSE SubSeq(tk_text, i, RunEnd(i))

\* the texts of toks one after the other
RECURSIVE Concat(_)
Concat(toks) == IF toks = <<>> THEN <<>> ELSE toks[1].text \o Concat(Tail(toks))

\* C22: tokenize returns, in source order, a TEXT token for each maximal run
\* of characters other than space, tab, newline and period, a PERIOD token for
\* each period, and then one EOF token; the texts of the TEXT and PERIOD tokens
\* one after the other are the text without its whitespace.
C22_TokensOfText ==
    tk_result = "returned" =>
        LET n == Cardinality(Starts) IN
        /\ Len(tk_tokens) = n + 1
        /\ tk_tokens[n + 1].enum = "eof"
        /\ \A k \in 1..n :
              /\ tk_tokens[k].text = Lexeme(NthStart(k))
              /\ tk_tokens[k].enum = (IF tk_text[NthStart(k)] = "." THEN "." ELSE "text")
        /\ Concat(SubSeq(tk_tokens, 1, n)) = SelectSeq(tk_text, LAMBDA c : c \notin Whitespace)

\* a text with two runs, a space between them and a period was tokenized
C22_Witness ==
    /\ tk_result = "returned"
    /\ tk_text = <<"A", " ", "0", "1", ".">>
    /\ Len(tk_tokens) = 4

\* C23: the line of every TEXT and PERIOD token returned is 1 plus the number
\* of newlines before the token's first character, also when a newline comes
\* right after the token.
C23_TokenLine ==
    tk_result = "returned" =>
        \A k \in 1..(Len(tk_tokens) - 1) :
            tk_tokens[k].line =
                1 + Cardinality({j \in 1..(NthStart(k) - 1) : tk_text[j] = "\n"})

(***************************************************************************)
(* copybook.py: Node.to_dict, to_dict, and the part of main that calls     *)
(* them.  A dict is a function from keys, which are texts, to values; a    *)
(* list is a sequence.                                                     *)
(***************************************************************************)
\* the keys the serializers write
Key ==
    [ level |-> <<"l", "e", "v", "e", "l">>,
      type |-> <<"t", "y", "p", "e">>,
      length |-> <<"l", "e", "n", "g", "t", "h">>,
      signed |-> <<"s", "i", "g", "n", "e", "d">>,
      scale |-> <<"s", "c", "a", "l", "e">>,
      usage |-> <<"u", "s", "a", "g", "e">>,
      values |-> <<"v", "a", "l", "u", "e", "s">>,
      occurs |-> <<"o", "c", "c", "u", "r", "s">>,
      redefines |-> <<"r", "e", "d", "e", "f", "i", "n", "e", "s">>,
      indexed_by |-> <<"i", "n", "d", "e", "x", "e", "d", "_", "b", "y">>,
      nodes |-> <<"n", "o", "d", "e", "s">>,
      timestamp |-> <<"t", "i", "m", "e", "s", "t", "a", "m", "p">> ]

\* output.update({key: value})
DictUpdate(m, key, value) ==
    [x \in (DOMAIN m) \cup {key} |-> IF x = key THEN value ELSE m[x]]

\* updates, a sequence of <<key, value>>, done one after the other on m
RECURSIVE DictUpdates(_, _)
DictUpdates(m, updates) ==
    IF updates = <<>> THEN m
    ELSE DictUpdates(DictUpdate(m, updates[1][1], updates[1][2]), Tail(updates))

\* ','.join(enum_set)
RECURSIVE Join(_)
Join(texts) ==
    IF texts = <<>> THEN <<>>
    ELSE IF Len(texts) = 1 THEN texts[1]
    ELSE texts[1] \o <<",">> \o Join(Tail(texts))

\* the digit d as a character
DigitChar(d) ==
    CASE d = 0 -> "0" [] d = 1 -> "1" [] d = 2 -> "2" [] d = 3 -> "3" [] d = 4 -> "4"
      [] d = 5 -> "5" [] d = 6 -> "6" [] d = 7 -> "7" [] d = 8 -> "8" [] d = 9 -> "9"

\* f'{node_level:02}', for a level below 100
LevelKey(lv) == <<DigitChar(lv \div 10), DigitChar(lv % 10)>>

\* the updates by node type, the same in Node.to_dict and in add_children
TypeUpdates(nd) ==
    IF nd.node_type = "record" THEN << <<Key.type, "record">> >>
    ELSE IF nd.node_type = "picture"
    THEN << <<Key.length, nd.node_picture[1].length>> >>
         \o (IF nd.node_picture[1].default # <<>>
             THEN << <<Key.length, nd.node_picture[1].default>> >> ELSE <<>>)
         \o (IF nd.node_picture[1].picture_type = "string"
             THEN << <<Key.type, "string">> >>
             ELSE IF nd.node_picture[1].picture_type = "numeric"
             THEN << <<Key.type, "numeric">>, <<Key.signed, nd.node_picture[1].signed>> >>
                  \o (IF nd.node_picture[1].scale # 0
                      THEN << <<Key.scale, nd.node_picture[1].scale>> >> ELSE <<>>)
             ELSE <<>>)
         \o (IF nd.usage # "none" THEN << <<Key.usage, nd.usage>> >> ELSE <<>>)
    ELSE IF nd.node_type = "enum"
    THEN << <<Key.type, "enum">>, <<Key.values, Join(nd.enum_set)>> >>
    ELSE <<>>

\* the updates for occurs, redefines and indexed_by
TailUpdates(nd) ==
    (IF nd.occurs > 1 THEN << <<Key.occurs, nd.occurs>> >> ELSE <<>>)
    \o (IF nd.redefines # <<>> THEN << <<Key.redefines, nd.redefines>> >> ELSE <<>>)
    \o (IF nd.indexed_by # <<>> THEN << <<Key.indexed_by, nd.indexed_by>> >> ELSE <<>>)

\* Node.to_dict: output = {'level': self.node_level}, then the updates
Node_to_dict(nd) ==
    DictUpdates(Key.level :> nd.node_level, TypeUpdates(nd) \o TailUpdates(nd))

\* Node('Root', 0, _NodeType.N_RECORD)
RootNode == Node(<<"R", "o", "o", "t">>, 0, "record")

\* build_node_tree(node_list), the for loop from the Node at position i on
RECURSIVE BuildFrom(_, _, _, _)
BuildFrom(nodes, i, t, p) ==
    IF i > Len(nodes) THEN [tree |-> t, ptr |-> p, err |-> ""]
    ELSE LET r == BuildBody(t, p, i, nodes[i].node_level) IN
         IF r.err # "" THEN r ELSE BuildFrom(nodes, i + 1, r.tree, r.ptr)

build_node_tree(nodes) == BuildFrom(nodes, 1, <<TreeNode(0, 0, 0)>>, 1)

\* add_children(ptr, output) on an empty output: the dict {node_name: {...}}
\* of the TreeNode at index i of the tree t over the Nodes nodes
RECURSIVE add_children(_, _, _)
add_children(t, nodes, i) ==
    LET nd == IF t[i].node = 0 THEN RootNode ELSE nodes[t[i].node]
        children == [k \in 1..Len(t[i].children) |-> add_children(t, nodes, t[i].children[k])]
        tree_node == t[i].children[Len(t[i].children)]
    IN nd.node_name :>
         DictUpdates(<<>>,
             TypeUpdates(nd)
             \o (IF children # <<>>
                 THEN << <<LevelKey(t[tree_node].level), children>> >> ELSE <<>>)
             \o TailUpdates(nd))

\* to_dict(root): add_children(root, result); result['timestamp'] = ts
to_dict(t, nodes, ts) == DictUpdate(add_children(t, nodes, 1), Key.timestamp, ts)

(***************************************************************************)
(* The serializers, step by step, on lists of at most MaxDictNodes Nodes   *)
(* that parse_copybook returns.                                            *)
(***************************************************************************)
SampleNodes ==
    { Node(<<"R">>, 1, "record"),
      [Node(<<"G">>, 5, "record") EXCEPT !.occurs = 3, !.indexed_by = <<"I">>],
      [Node(<<"E">>, 1, "record") EXCEPT !.redefines = <<"R">>],
      [Node(<<"A">>, 5, "picture") EXCEPT
          !.node_picture = <<[picture_type |-> "string", length |-> 10, scale |-> 0,
                              default |-> <<>>, signed |-> FALSE]>>],
      [Node(<<"B">>, 5, "picture") EXCEPT
          !.node_picture = <<[picture_type |-> "numeric", length |-> 5, scale |-> 2,
                              default |-> <<>>, signed |-> TRUE]>>,
          !.usage = "packed"],
      [Node(<<"C">>, 88, "enum") EXCEPT
          !.enum_set = << <<"'", "Y", "'">>, <<"'", "N", "'">> >>] }

RECURSIVE NodeLists(_)
NodeLists(n) ==
    IF n = 0 THEN {<<>>}
    ELSE LET shorter == NodeLists(n - 1) IN
         shorter \cup {Append(l, nd) : l \in shorter, nd \in SampleNodes}

\* datetime.now().strftime(...)
Timestamps == { <<"1">>, <<"2">> }

\* main, after node_list = parse_copybook(text)
DictInit ==
    /\ PicIdle
    /\ TreeIdle
    /\ LexIdle
    /\ ParseIdle
    /\ TokIdle
    /\ ParserIdle
    /\ dict_nodes \in NodeLists(MaxDictNodes)
    /\ dict_mode \in {"flat", "nested"}
    /\ dict_tree = <<>>
    /\ dict_idx = 1
    /\ dict_out = <<>>
    /\ dict_result = "running"

\* [{node.node_name: node.to_dict()} for node in node_list], one Node
FlatPass ==
    /\ dict_result = "running"
    /\ dict_mode = "flat"
    /\ dict_idx <= Len(dict_nodes)
    /\ dict_out' = Append(dict_out, dict_nodes[dict_idx].node_name :>
                                        Node_to_dict(dict_nodes[dict_idx]))
    /\ dict_idx' = dict_idx + 1
    /\ UNCHANGED <<dict_nodes, dict_mode, dict_tree, dict_result, dict_frame>>

\* node_dict = {'nodes': [...]}
FlatReturn ==
    /\ dict_result = "running"
    /\ dict_mode = "flat"
    /\ dict_idx > Len(dict_nodes)
    /\ dict_out' = (Key.nodes :> dict_out)
    /\ dict_result' = "returned"
    /\ UNCHANGED <<dict_nodes, dict_mode, dict_tree, dict_idx, dict_frame>>

\* node_tree = build_node_tree(node_list)
NestedBuild ==
    /\ dict_result = "running"
    /\ dict_mode = "nested"
    /\ dict_tree = <<>>
    /\ \E r \in {build_node_tree(dict_nodes)} :
          /\ dict_tree' = r.tree
          /\ dict_result' = IF r.err = "" THEN "running" ELSE r.err
    /\ UNCHANGED <<dict_nodes, dict_mode, dict_idx, dict_out, dict_frame>>

\* node_dict = to_dict(node_tree)
NestedToDict ==
    /\ dict_result = "running"
    /\ dict_mode = "nested"
    /\ dict_tree # <<>>
    /\ \E ts \in Timestamps : dict_out' = to_dict(dict_tree, dict_nodes, ts)
    /\ dict_result' = "returned"
    /\ UNCHANGED <<dict_nodes, dict_mode, dict_tree, dict_idx, dict_frame>>

DictNext ==
    \/ FlatPass
    \/ FlatReturn
    \/ NestedBuild
    \/ NestedToDict

SpecDict == DictInit /\ [][DictNext]_vars

(***************************************************************************)
(* Claims about the serializers.                                           *)
(***************************************************************************)
\* the keys add_children and Node.to_dict write that are no child lists
PlainKeys ==
    {Key.level, Key.type, Key.length, Key.signed, Key.scale, Key.usage, Key.values,
     Key.occurs, Key.redefines, Key.indexed_by}

\* the mapping m of a Node has the keys level and type, type being one of four
HasLevelAndType(m) ==
    /\ Key.level \in DOMAIN m
    /\ Key.type \in DOMAIN m
    /\ m[Key.type] \in {"record", "string", "numeric", "enum"}

\* HasLevelAndType for the mappings of all TreeNodes below the TreeNode
\* whose mapping is m
RECURSIVE BelowHaveLevelAndType(_)
BelowHaveLevelAndType(m) ==
    \A key \in (DOMAIN m) \ PlainKeys :
        \A k \in 1..Len(m[key]) :
            \A name \in DOMAIN m[key][k] :
                /\ HasLevelAndType(m[key][k][name])
                /\ BelowHaveLevelAndType(m[key][k][name])

\* the flat mode gives each Node a mapping with the keys level and type
FlatHasLevelAndType ==
    (dict_result = "returned" /\ dict_mode = "flat") =>
        /\ Len(dict_out[Key.nodes]) = Len(dict_nodes)
        /\ \A i \in 1..Len(dict_nodes) :
              /\ DOMAIN dict_out[Key.nodes][i] = {dict_nodes[i].node_name}
              /\ HasLevelAndType(dict_out[Key.nodes][i][dict_nodes[i].node_name])
              /\ dict_out[Key.nodes][i][dict_nodes[i].node_name][Key.level]
                    = dict_nodes[i].node_level

\* C25: in both modes, flat and nested, the mapping made for every Node or
\* TreeNode has the keys level and type, type being record, string, numeric
\* or enum (the TreeNodes looked at are those of the Nodes of node_list).
C25_LevelAndType ==
    /\ FlatHasLevelAndType
    /\ (dict_result = "returned" /\ dict_mode = "nested") =>
          BelowHaveLevelAndType(dict_out[RootNode.node_name])

(***************************************************************************)
(* The copybooks parse_copybook is run on.  tokenize returns the TEXT and  *)
(* PERIOD tokens of the text and then one EOF token; every such list is    *)
(* the tokens of some text.  A run parses either a named copybook (script  *)
(* holds its tokens) or any list of at most MaxTokens tokens of Vocabulary *)
(* and EOF.  The variable tokens holds the list as far as consume has      *)
(* looked, one token past token_idx; what lies beyond is not yet chosen.   *)
(***************************************************************************)
Copybook_Example ==
    << TextToken(<<"0", "1">>),
       TextToken(<<"R", "E", "C">>),
       PeriodToken,
       TextToken(<<"0", "5">>),
       TextToken(<<"F", "I", "E", "L", "D", "-", "A">>),
       TextToken(<<"P", "I", "C">>),
       TextToken(<<"X", "(", "1", "0", ")">>),
       PeriodToken,
       TextToken(<<"0", "5">>),
       TextToken(<<"F", "I", "E", "L", "D", "-", "B">>),
       TextToken(<<"P", "I", "C">>),
       TextToken(<<"9", "(", "5", ")", "V", "9", "9">>),
       TextToken(<<"U", "S", "A", "G", "E">>),
       TextToken(<<"C", "O", "M", "P", "-", "3">>),
       PeriodToken,
       EofToken >>

Copybook_Default ==
    << TextToken(<<"0", "5">>),
       TextToken(<<"A">>),
       TextToken(<<"P", "I", "C">>),
       TextToken(<<"X">>),
       TextToken(<<"V", "A", "L", "U", "E">>),
       TextToken(<<"'", "Y", "'">>),
       PeriodToken,
       TextToken(<<"0", "5">>),
       TextToken(<<"B">>),
       PeriodToken,
       EofToken >>

Copybook_Sugar ==
    << TextToken(<<"E", "J", "E", "C", "T">>),
       TextToken(<<"0", "1">>),
       TextToken(<<"T">>),
       TextToken(<<"O", "C", "C", "U", "R", "S">>),
       TextToken(<<"3">>),
       TextToken(<<"T", "I", "M", "E", "S">>),
       TextToken(<<"U", "S", "A", "G", "E">>),
       TextToken(<<"I", "S">>),
       TextToken(<<"D", "I", "S", "P", "L", "A", "Y">>),
       TextToken(<<"I", "N", "D", "E", "X", "E", "D">>),
       TextToken(<<"B", "Y">>),
       TextToken(<<"I">>),
       PeriodToken,
       TextToken(<<"8", "8">>),
       TextToken(<<"C">>),
       TextToken(<<"V", "A", "L", "U", "E">>),
       TextToken(<<"'", "Y", "'">>),
       TextToken(<<"'", "N", "'">>),
       TextToken(<<"Z">>),
       PeriodToken,
       EofToken >>

\* a record, a field and an enumeration
Copybook_Kinds ==
    << TextToken(<<"0", "1">>),
       TextToken(<<"R">>),
       PeriodToken,
       TextToken(<<"0", "5">>),
       TextToken(<<"F">>),
       TextToken(<<"P", "I", "C">>),
       TextToken(<<"X">>),
       PeriodToken,
       TextToken(<<"8", "8">>),
       TextToken(<<"C">>),
       TextToken(<<"V", "A", "L", "U", "E">>),
       TextToken(<<"'", "Y", "'">>),
       PeriodToken,
       EofToken >>

\* a level-88 sentence with three literals, one with text after its closing quote
Copybook_Enum ==
    << TextToken(<<"8", "8">>),
       TextToken(<<"C">>),
       TextToken(<<"V", "A", "L", "U", "E">>),
       TextToken(<<"N">>),
       TextToken(<<"'", "Y", "'", "Z">>),
       TextToken(<<"'", "Y", "'">>),
       PeriodToken,
       EofToken >>

\* a sentence after a complete one begins with digits followed by a letter
Copybook_LevelSuffix ==
    << TextToken(<<"0", "1">>),
       TextToken(<<"R">>),
       PeriodToken,
       TextToken(<<"5", "A">>),
       TextToken(<<"B">>),
       PeriodToken,
       EofToken >>

\* a sentence after a complete one whose PIC clause has the picture text
Copybook_Pic(text) ==
    << TextToken(<<"0", "1">>),
       TextToken(<<"R">>),
       PeriodToken,
       TextToken(<<"0", "5">>),
       TextToken(<<"A">>),
       TextToken(<<"P", "I", "C">>),
       TextToken(text),
       PeriodToken,
       EofToken >>

\* a sentence with its keywords in lower case
Copybook_LowerCase ==
    << TextToken(<<"0", "1">>),
       TextToken(<<"a">>),
       TextToken(<<"o", "c", "c", "u", "r", "s">>),
       TextToken(<<"3">>),
       TextToken(<<"t", "i", "m", "e", "s">>),
       TextToken(<<"u", "s", "a", "g", "e">>),
       TextToken(<<"i", "s">>),
       TextToken(<<"c", "o", "m", "p", "-", "3">>),
       TextToken(<<"i", "n", "d", "e", "x", "e", "d">>),
       TextToken(<<"b", "y">>),
       TextToken(<<"i">>),
       PeriodToken,
       EofToken >>

\* INDEXED followed by the keyword BY in lower case
Copybook_LowerBy ==
    << TextToken(<<"0", "1">>),
       TextToken(<<"A">>),
       TextToken(<<"I", "N", "D", "E", "X", "E", "D">>),
       TextToken(<<"b", "y">>),
       TextToken(<<"I">>),
       PeriodToken,
       EofToken >>

\* a sentence with a REDEFINES clause after the sentence it redefines
Copybook_Redefines ==
    << TextToken(<<"0", "1">>),
       TextToken(<<"A">>),
       PeriodToken,
       TextToken(<<"0", "1">>),
       TextToken(<<"B">>),
       TextToken(<<"R", "E", "D", "E", "F", "I", "N", "E", "S">>),
       TextToken(<<"A">>),
       PeriodToken,
       EofToken >>

\* picture texts of up to MaxPieces pieces with an X run and a 9 run, S or V
MixedPics ==
    {t \in PicTexts(MaxPieces) :
        /\ \E i \in 1..Len(t) : t[i] = "X"
        /\ \E i \in 1..Len(t) : t[i] \in {"9", "S", "V"}
        /\ \A i \in 1..Len(t) : t[i] # "Q"}

\* a mixed picture text in lower case, as a copybook may write it
Pic_x9 == <<"x", "9">>

NamedCopybooks ==
    {Copybook_Example, Copybook_Default, Copybook_Sugar, Copybook_Kinds, Copybook_Enum,
     Copybook_LevelSuffix, Copybook_LowerCase, Copybook_LowerBy, Copybook_Redefines}
        \cup {Copybook_Pic(t) : t \in MixedPics \cup {Pic_x9}}

Vocabulary ==
    { TextToken(<<"0", "1">>),
      TextToken(<<"8", "8">>),
      TextToken(<<"A">>),
      TextToken(<<"P", "I", "C">>),
      TextToken(<<"X">>),
      TextToken(<<"V", "A", "L", "U", "E">>),
      TextToken(<<"'", "Y", "'">>),
      TextToken(<<"U", "S", "A", "G", "E">>),
      TextToken(<<"C", "O", "M", "P", "-", "3">>),
      TextToken(<<"O", "C", "C", "U", "R", "S">>),
      TextToken(<<"R", "E", "D", "E", "F", "I", "N", "E", "S">>),
      TextToken(<<"I", "N", "D", "E", "X", "E", "D">>),
      PeriodToken }

\* the list ends with the EOF token
Complete(toks) == Len(toks) >= 1 /\ toks[Len(toks)].enum = "eof"

\* the tokens that may follow toks
Following(toks, scr) ==
    IF scr # <<>> THEN {scr[Len(toks) + 1]}
    ELSE IF Len(toks) >= MaxTokens THEN {EofToken}
    ELSE Vocabulary \cup {EofToken}

\* the lists that continue toks up to n tokens, or less when EOF comes
RECURSIVE Shown(_, _, _)
Shown(toks, n, scr) ==
    IF Len(toks) >= n \/ Complete(toks) THEN {toks}
    ELSE UNION {Shown(Append(toks, t), n, scr) : t \in Following(toks, scr)}

(***************************************************************************)
(* parse_copybook, step by step.                                           *)
(***************************************************************************)
\* tokens = tokenize(copybook); node_list = []; and the locals of consume
ParseInit ==
    /\ TokIdle
    /\ DictIdle
    /\ ParserIdle
    /\ PicIdle
    /\ TreeIdle
    /\ LexIdle
    /\ script \in {<<>>} \cup NamedCopybooks
    /\ tokens \in Shown(<<>>, 2, script)
    /\ token_idx = 1
    /\ state = "start"
    /\ level = 0
    /\ node = <<>>
    /\ node_list = <<>>
    /\ parse_result = "running"
    /\ err_at = 0
    /\ parses = <<>>

\* the call of parse_copybook ends with result res, node list nl, and at the
\* index of the token the message of its exception names
Ended(res, nl, at) ==
    Append(parses, [copybook |-> script, result |-> res, node_list |-> nl, err_at |-> at])

\* one pass of the while loop of consume
ConsumePass ==
    /\ parse_result = "running"
    /\ token_idx <= Len(tokens)
    /\ \E r \in {ConsumeBody(tokens, Ctx(state, level, node, node_list, token_idx))} :
       /\ state' = r.state
       /\ level' = r.level
       /\ node' = r.node
       /\ node_list' = r.node_list
       /\ parse_result' = IF r.ret = "" THEN "running"
                          ELSE IF r.ret = "return" THEN "returned"
                          ELSE r.ret
       /\ err_at' = r.at
       /\ parses' = IF r.ret = "" THEN parses
                     ELSE Ended(IF r.ret = "return" THEN "returned" ELSE r.ret, r.node_list, r.at)
       /\ token_idx' = IF r.ret = "" THEN r.idx + 1 ELSE r.idx
       /\ tokens' \in IF r.ret = "" THEN Shown(tokens, r.idx + 2, script) ELSE {tokens}
    /\ UNCHANGED <<script, parse_frame>>

ConsumeStart ==
    /\ state = "start"
    /\ ConsumePass

ConsumeSentence ==
    /\ state = "sentence"
    /\ ConsumePass

ConsumeClause ==
    /\ state = "clause"
    /\ ConsumePass

ConsumeRedefines ==
    /\ state = "redefines"
    /\ ConsumePass

ConsumeOccurs ==
    /\ state = "occurs"
    /\ ConsumePass

ConsumePicture ==
    /\ state = "picture"
    /\ ConsumePass

ConsumeValue ==
    /\ state = "value"
    /\ ConsumePass

ConsumeUsage ==
    /\ state = "usage"
    /\ ConsumePass

ConsumeEnum ==
    /\ state = "enum"
    /\ ConsumePass

ConsumeIndexed ==
    /\ state = "indexed"
    /\ ConsumePass

\* the loop condition fails: consume returns, and parse_copybook returns node_list
ConsumeExhausted ==
    /\ parse_result = "running"
    /\ token_idx > Len(tokens)
    /\ parse_result' = "returned"
    /\ parses' = Ended("returned", node_list, err_at)
    /\ UNCHANGED <<script, tokens, token_idx, state, level, node, node_list, err_at, parse_frame>>

Next ==
    \/ ConsumeStart
    \/ ConsumeSentence
    \/ ConsumeClause
    \/ ConsumeRedefines
    \/ ConsumeOccurs
    \/ ConsumePicture
    \/ ConsumeValue
    \/ ConsumeUsage
    \/ ConsumeEnum
    \/ ConsumeIndexed
    \/ ConsumeExhausted

Init == ParseInit

Spec == Init /\ [][Next]_vars

(***************************************************************************)
(* parse_copybook called several times, one call after the other has       *)
(* ended, each time with one of the named copybooks below.                 *)
(***************************************************************************)
ReparseCopybooks ==
    {Copybook_Example, Copybook_Default, Copybook_Sugar, Copybook_LevelSuffix,
     Copybook_Redefines}

\* node_list as the call begins with a node list of earlier calls
FreshNodeList_shared == node_list

\* node_list = []
FreshNodeList == <<>>

\* parse_copybook(copybook): tokens = tokenize(copybook); node_list = []; and
\* the locals of consume
ParseCall ==
    /\ parse_result # "running"
    /\ Len(parses) < MaxParses
    /\ script' \in ReparseCopybooks
    /\ tokens' \in Shown(<<>>, 2, script')
    /\ token_idx' = 1
    /\ state' = "start"
    /\ level' = 0
    /\ node' = <<>>
    /\ node_list' = FreshNodeList
    /\ parse_result' = "running"
    /\ err_at' = 0
    /\ UNCHANGED <<parses, parse_frame>>

ReparseInit ==
    /\ TokIdle
    /\ DictIdle
    /\ ParserIdle
    /\ PicIdle
    /\ TreeIdle
    /\ LexIdle
    /\ ParseIdle

ReparseNext ==
    \/ ParseCall
    \/ Next

SpecReparse == ReparseInit /\ [][ReparseNext]_vars

(***************************************************************************)
(* Claims about parse_copybook.                                            *)
(***************************************************************************)
\* a pass of the while loop is about to run on tokens[token_idx]
PassEnabled == parse_result = "running" /\ token_idx <= Len(tokens)

\* the node under construction has a picture
HasPicture == node # <<>> /\ node[1].node_picture # <<>>

\* C1: a VALUE clause on a node with a picture consumes exactly one literal
\* token as the picture's default and the parser returns to CLAUSE (where the
\* PERIOD of the sentence then finalizes the node).
C1_ValueReturnsToClause ==
    [][ (PassEnabled /\ state = "value" /\ HasPicture /\ tokens[token_idx].enum = "text")
          => /\ state' = "clause"
             /\ token_idx' = token_idx + 1
             /\ node'[1].node_picture[1].default # <<>> ]_vars

\* C2: parse_copybook returns a Node list only when the EOF token is consumed
\* in state START; in every other state the end of the tokens raises an error.
C2_ReturnsOnlyAtEofInStart ==
    parse_result = "returned" =>
        /\ state = "start"
        /\ token_idx <= Len(tokens)
        /\ tokens[token_idx].enum = "eof"

\* the text is wrapped in single quotes
Quoted(text) ==
    /\ Len(text) >= 3
    /\ text[1] = "'" /\ text[Len(text)] = "'"
    /\ \A i \in 2..(Len(text) - 1) : text[i] # "'"

\* what the literal text is to be stored as
Unwrapped(text) == IF Quoted(text) THEN SubSeq(text, 2, Len(text) - 1) ELSE text

\* C6: a literal consumed in the VALUE or ENUM state is stored, as picture
\* default or as enumeration element, without the single quotes that wrap it,
\* and verbatim when it has none.
C6_QuotesUnwrapped ==
    [][ (PassEnabled /\ state \in {"value", "enum"} /\ tokens[token_idx].enum = "text"
           /\ (HasPicture \/ level = 88))
          => LET stored == Unwrapped(tokens[token_idx].text) IN
             IF state = "value" /\ HasPicture
             THEN node'[1].node_picture[1].default = stored
             ELSE /\ node'[1].enum_set # <<>>
                  /\ node'[1].enum_set[Len(node'[1].enum_set)] = stored ]_vars

\* the Nodes the three-sentence example is to give
Example_Nodes ==
    << Node(<<"R", "E", "C">>, 1, "record"),
       [Node(<<"F", "I", "E", "L", "D", "-", "A">>, 5, "picture") EXCEPT
            !.node_picture = <<[picture_type |-> "string", length |-> 10, scale |-> 0,
                                default |-> <<>>, signed |-> FALSE]>>],
       [Node(<<"F", "I", "E", "L", "D", "-", "B">>, 5, "picture") EXCEPT
            !.node_picture = <<[picture_type |-> "numeric", length |-> 7, scale |-> 2,
                                default |-> <<>>, signed |-> FALSE]>>,
            !.usage = "packed"] >>

\* C10: node_list is built append-only in source order: a pass appends one Node
\* exactly when it consumes a PERIOD in CLAUSE state, the Node carries the level
\* read in START and the name read in SENTENCE of its sentence, and no other
\* pass changes node_list; the three-sentence example returns its three Nodes.
C10_AppendOnly ==
    [][ /\ IF PassEnabled /\ state = "clause" /\ tokens[token_idx].enum = "."
           THEN /\ Len(node_list') = Len(node_list) + 1
                /\ SubSeq(node_list', 1, Len(node_list)) = node_list
                /\ node_list'[Len(node_list')].node_level = level
                /\ node_list'[Len(node_list')].node_name = node[1].node_name
           ELSE node_list' = node_list
        /\ (PassEnabled /\ state = "start" /\ state' = "sentence")
              => level' = IntOf(tokens[token_idx].text)
        /\ (PassEnabled /\ state = "sentence" /\ state' = "clause")
              => /\ node'[1].node_name = tokens[token_idx].text
                 /\ node'[1].node_level = level
        /\ state # "start" => level' = level
        /\ state \notin {"start", "sentence"}
              => /\ node' # <<>>
                 /\ node'[1].node_name = node[1].node_name
                 /\ node'[1].node_level = node[1].node_level
        /\ (script = Copybook_Example /\ parse_result' = "returned")
              => node_list' = Example_Nodes ]_vars

\* the three-sentence example has been parsed to its three Nodes
C10_Witness ==
    /\ script = Copybook_Example
    /\ parse_result = "returned"
    /\ Len(node_list) = 3

\* C11: every Node of node_list, and so of the returned list, has kind record,
\* picture or enum; it is a picture Node exactly when it has a picture; an enum
\* Node has values and level 88; a record Node has neither picture nor values.
C11_NodeKinds ==
    \A i \in 1..Len(node_list) :
        LET n == node_list[i] IN
        /\ n.node_type \in {"record", "picture", "enum"}
        /\ n.node_type = "picture" <=> n.node_picture # <<>>
        /\ n.node_type = "enum" => (n.enum_set # <<>> /\ n.node_level = 88)
        /\ n.node_type = "record" => (n.node_picture = <<>> /\ n.enum_set = <<>>)

\* a list with a Node of each kind has been returned
C11_Witness ==
    /\ parse_result = "returned"
    /\ \A k \in {"record", "picture", "enum"} :
          \E i \in 1..Len(node_list) : node_list[i].node_type = k

\* C12: in a level-88 sentence without a picture, the k >= 1 literal tokens
\* between VALUE and the next PERIOD become the enumeration list, in source
\* order: each literal consumed in VALUE or ENUM is put last in the list,
\* accumulation goes on exactly until the next token is a PERIOD, and that
\* PERIOD appends the Node with the k literals.
C12_EnumAccumulates ==
    [][ /\ (PassEnabled /\ state \in {"value", "enum"} /\ level = 88 /\ ~HasPicture
              /\ tokens[token_idx].enum = "text" /\ token_idx < Len(tokens))
           => /\ node'[1].enum_set =
                    (IF state = "value" THEN <<>> ELSE node[1].enum_set)
                        \o <<Unwrapped(tokens[token_idx].text)>>
              /\ state' = IF tokens[token_idx + 1].enum = "." THEN "clause" ELSE "enum"
        /\ (PassEnabled /\ state = "clause" /\ tokens[token_idx].enum = "."
              /\ node[1].enum_set # <<>>
              /\ tokens[token_idx - Len(node[1].enum_set)].enum = "text")
           => LET k == Len(node[1].enum_set)
                  v == token_idx - k - 1
              IN /\ v >= 1
                 /\ Upper(tokens[v].text) = W.value
                 /\ \A j \in 1..k :
                       /\ tokens[v + j].enum # "."
                       /\ node[1].enum_set[j] = Unwrapped(tokens[v + j].text)
                 /\ node_list'[Len(node_list')].enum_set = node[1].enum_set ]_vars

\* C13: in state START a token that is not EJECT, not EOF and not made of
\* digits only raises the CopybookException "expected level number" with that
\* token's line and col, and nothing is returned; only a token made of digits
\* only sets level and moves to SENTENCE.
C13_StartRejects ==
    [][ (PassEnabled /\ state = "start")
          => LET token == tokens[token_idx] IN
             /\ (/\ Upper(token.text) # W.eject
                 /\ token.enum # "eof"
                 /\ ~(token.enum = "text" /\ IsDecimal(token.text)))
                   => /\ parse_result' = "CopybookException"
                      /\ err_at' = token_idx
                      /\ state' = "start"
             /\ state' = "sentence"
                   => /\ token.enum = "text" /\ IsDecimal(token.text)
                      /\ level' = IntOf(token.text) ]_vars

\* C14: when the token after PIC or PICTURE is a picture text with both an X
\* run and a 9 run, S or V, in either order, parse_copybook raises a
\* CopybookException with that token's line and col; no picture is attached
\* and nothing is returned.
C14_MixedPictureRejected ==
    [][ (PassEnabled /\ state = "picture" /\ tokens[token_idx].enum = "text"
           /\ Upper(tokens[token_idx].text) \in MixedPics)
          => /\ parse_result' = "CopybookException"
             /\ err_at' = token_idx
             /\ node' = node
             /\ node_list' = node_list ]_vars

\* a mixed picture text has been met after PIC and the parse has ended
C14_Witness ==
    /\ parse_result \notin {"idle", "running"}
    /\ state = "picture"
    /\ token_idx <= Len(tokens)
    /\ Upper(tokens[token_idx].text) \in MixedPics
    /\ Len(node_list) = 1

\* C15: a VALUE clause on a node without a picture whose level is not 88
\* raises a CopybookException with the literal token's line and col; the node
\* is not appended and nothing is returned.
C15_ValueWithoutPicture ==
    [][ (PassEnabled /\ state = "value" /\ ~HasPicture /\ level # 88)
          => /\ parse_result' = "CopybookException"
             /\ err_at' = token_idx
             /\ node' = node
             /\ node_list' = node_list ]_vars

\* a literal after VALUE has been met on a node without picture of another level
C15_Witness ==
    /\ parse_result \notin {"idle", "running"}
    /\ state = "value"
    /\ ~HasPicture
    /\ level # 88
    /\ token_idx <= Len(tokens)
    /\ tokens[token_idx].enum = "text"

(***************************************************************************)
(* Claims about Lexer.parse.                                               *)
(***************************************************************************)
\* the registered rules whose pattern matches lexer_data at curr_pos
MatchingRules ==
    {k \in 1..Len(rules) :
        HasPattern(rules[k]) /\ ReMatch(rules[k].regex, lexer_data[1], curr_pos) >= 0}

MatchLen(k) == ReMatch(rules[k].regex, lexer_data[1], curr_pos)

\* a pass of the inner loop that consumed a match
MatchStep ==
    /\ lx_result = "running"
    /\ lx_result' \in {"running", "returned"}

\* C17: at every offset the rule selected is, among the registered rules that
\* match the remaining input, the one with the longest match, and among several
\* of the same longest length the one registered first: the position advances
\* by its match and its token is added; "9(05)" gives the tokens 9, len 05, eol.
C17_LongestMatchFirstWins ==
    [][ /\ MatchStep =>
            \E best \in MatchingRules :
               /\ \A j \in MatchingRules :
                     \/ MatchLen(best) > MatchLen(j)
                     \/ MatchLen(best) = MatchLen(j) /\ best <= j
               /\ curr_pos' = curr_pos + MatchLen(best)
               /\ ~rules[best].is_ws =>
                     /\ Len(lexer_tokens') > Len(lexer_tokens)
                     /\ lexer_tokens'[Len(lexer_tokens) + 1] =
                           [enum |-> rules[best].enum,
                            text |-> ReGroup(rules[best].regex, rules[best].group,
                                             lexer_data[1], curr_pos, MatchLen(best))]
        /\ (lx_result' = "returned" /\ lx_arg' = Pic_9_05 /\ rules' = PictureRules) =>
              lexer_tokens' = << [enum |-> "9", text |-> <<"9">>],
                                 [enum |-> "len", text |-> <<"0", "5">>],
                                 [enum |-> "eol", text |-> EofText] >> ]_vars

\* "X(03)" was tokenized with the single-X rule registered before the X run:
\* both match one character at offset 0
C17_Witness ==
    /\ lx_result = "returned"
    /\ rules = OverlapRules
    /\ lexer_tokens = << [enum |-> "one_x", text |-> <<"X">>],
                         [enum |-> "len", text |-> <<"0", "3">>],
                         [enum |-> "eol", text |-> EofText] >>

\* the positions of the newlines of lexer_data before curr_pos
NewlinesBefore == {i \in 1..(curr_pos - 1) : lexer_data[1][i] = "\n"}

LastNewlineBefore ==
    IF NewlinesBefore = {} THEN 0
    ELSE CHOOSE i \in NewlinesBefore : \A j \in NewlinesBefore : j <= i

\* the characters of lexer_data from curr_pos on
Remaining == Len(lexer_data[1]) - curr_pos + 1

\* C18: when no rule matches at an offset, parse raises ParserError with the
\* line and column of that offset and the next (at most 10) characters, and
\* returns nothing; a call starts at offset 0, every match is taken at the
\* current offset and moves it to the end of that match, and tokens are
\* returned only with the offset at the end of the data.
C18_NoMatchRaises ==
    [][ /\ ( /\ lx_result = "running"
             /\ curr_pos <= Len(lexer_data[1])
             /\ MatchingRules = {} )
           => /\ lx_result' = "ParserError"
              /\ lexer_tokens' = lexer_tokens
              /\ lx_message' =
                    << [line |-> Cardinality(NewlinesBefore) + 1,
                        col |-> curr_pos - LastNewlineBefore,
                        head |-> [i \in 1..(IF Remaining < 10 THEN Remaining ELSE 10)
                                    |-> lexer_data[1][curr_pos + i - 1]]] >>
        /\ (lx_result # "running" /\ lx_result' = "running") => curr_pos' = 1
        /\ MatchStep => /\ MatchingRules # {}
                        /\ \E k \in MatchingRules : curr_pos' = curr_pos + MatchLen(k)
        /\ lx_result' = "returned" => curr_pos' = Len(lexer_data'[1]) + 1 ]_vars

\* ParserError on the second line with more than ten characters left
C18_Witness ==
    /\ lx_result = "ParserError"
    /\ lx_message # <<>>
    /\ lx_message[1].line = 2
    /\ lx_message[1].col = 2
    /\ Len(lx_message[1].head) = 10
    /\ Remaining > 10

\* the registered rules with is_eof
EofRules == {k \in 1..Len(rules) : rules[k].is_eof}

\* the tokens of toks made for an is_eof rule
EofTokens(toks) == {i \in 1..Len(toks) : \E k \in EofRules : toks[i].enum = rules[k].enum}

LexDone == lx_result \notin {"idle", "running"}

\* the outcome of parse(lx_arg) on a new Lexer made with data c and the same
\* rules agrees with the outcome in this state
AsFresh(c) ==
    LET fresh == LexerCall(rules, c, <<>>, lx_arg) IN
    /\ lx_result = (IF fresh.err = "" THEN "returned" ELSE fresh.err)
    /\ lx_result = "returned" => lexer_tokens = fresh.tokens

\* C20: a call of parse on a Lexer that has been called before ends as the
\* same call ends on a new Lexer (made with data None or '') with the same
\* rules, with the same tokens if it returns tokens, for every text, the empty
\* text included.
C20_ResultDependsOnTextOnly ==
    (LexDone /\ lx_calls >= 2) => (AsFresh(<<>>) \/ AsFresh(<<(<<>>)>>))

\* C30: every call of Lexer.parse ends, by a return or an exception, whatever
\* the text and the registered rules.
C30_ParseTerminates == (lx_result = "running") ~> (lx_result # "running")

(***************************************************************************)
(* Further claims about parse_copybook.                                    *)
(***************************************************************************)
\* C26: the reads of tokens[token_idx+1] in the OCCURS, VALUE and ENUM states,
\* and of tokens[token_idx+1] in decode's WAIT-FIXED-POINT state, are inside the
\* token list: no parse ends with IndexError, also when the text ends in the
\* middle of a sentence.
C26_LookaheadInside == parse_result # "IndexError"

\* this pass went on to the next token and left level, node and node_list as
\* they were
Skipped ==
    /\ parse_result' = "running"
    /\ token_idx' = token_idx + 1
    /\ level' = level /\ node' = node /\ node_list' = node_list

\* C24: IS in state USAGE and BY in state INDEXED are passed over: the state,
\* the level, the node and the list stay as they are; a pass in state OCCURS on
\* a count sets occurs to the count and goes to CLAUSE, with or without TIMES
\* after the count, and passes over TIMES when it is there.  So a sentence with
\* one of the three keywords is parsed as the sentence without it.
C24_OptionalKeywords ==
    [][ PassEnabled =>
          LET token == tokens[token_idx] IN
          /\ (state = "usage" /\ Upper(token.text) = W.is) => (Skipped /\ state' = "usage")
          /\ (state = "indexed" /\ token.text = W.by) => (Skipped /\ state' = "indexed")
          /\ (state = "occurs" /\ token.enum = "text" /\ IsDecimal(token.text)) =>
                /\ parse_result' = "running"
                /\ state' = "clause"
                /\ level' = level /\ node_list' = node_list
                /\ node' = <<[node[1] EXCEPT !.occurs = IntOf(token.text)]>>
                /\ token_idx' = IF Upper(tokens[token_idx + 1].text) = W.times
                                 THEN token_idx + 2 ELSE token_idx + 1 ]_vars

\* the sentence with TIMES, IS and BY was finalized: occurs 3, usage display,
\* indexed by I
C24_Witness ==
    /\ script = Copybook_Sugar
    /\ node_list # <<>>
    /\ node_list[1].occurs = 3
    /\ node_list[1].usage = "display"
    /\ node_list[1].indexed_by = <<"I">>
    /\ node_list[1].node_name = <<"T">>

\* the words consume takes for keywords in state START, CLAUSE, USAGE, INDEXED
KeywordsOf(st) ==
    CASE st = "start" -> {W.eject}
      [] st = "clause" -> {W.redefines, W.occurs, W.pic, W.picture, W.value, W.usage,
                           W.display, W.binary, W.comp_3, W.computational_3, W.indexed}
      [] st = "usage" -> {W.is, W.display, W.binary, W.comp_3, W.computational_3}
      [] st = "indexed" -> {W.by}
      [] OTHER -> {}

\* C29: a pass on a token that is a keyword of the state in some letter case
\* ends as the pass on the same token in upper case.
C29_KeywordCase ==
    [][ (PassEnabled /\ Upper(tokens[token_idx].text) \in KeywordsOf(state)) =>
          \E r \in {ConsumeBody([tokens EXCEPT ![token_idx].text = Upper(@)],
                                 Ctx(state, level, node, node_list, token_idx))} :
             /\ state' = r.state
             /\ level' = r.level
             /\ node' = r.node
             /\ node_list' = r.node_list
             /\ parse_result' = (IF r.ret = "" THEN "running" ELSE r.ret) ]_vars

\* C21: two calls of parse_copybook with the same copybook, whatever was
\* parsed before and between them, end alike: the same Nodes (names, levels,
\* kinds, pictures, occurs, usage, redefines, values, indexed-by) in the same
\* order, or the same exception at the same token.
C21_SameTextSameResult ==
    \A i, j \in 1..Len(parses) :
        parses[i].copybook = parses[j].copybook => parses[i] = parses[j]

\* the copybook with two sentences was parsed, then another one, then the
\* first again, which returned its two Nodes
C21_Witness ==
    /\ Len(parses) = 3
    /\ parses[1].copybook = Copybook_Sugar
    /\ parses[2].copybook = Copybook_Default
    /\ parses[3].copybook = Copybook_Sugar
    /\ parses[3].result = "returned"
    /\ Len(parses[3].node_list) = 2

(***************************************************************************)
(* lexer.py: Parser.  A Parser is p = [tokens, token_ptr, curr_token,      *)
(* next_token]; token_ptr counts from 0 as in the code, tokens[token_ptr]  *)
(* of the code being p.tokens[p.token_ptr + 1] here.                       *)
(***************************************************************************)
\* Parser.__init__
NewParser(toks) == [tokens |-> toks, token_ptr |-> 0, curr_token |-> <<>>, next_token |-> <<>>]

\* Parser.has_next
has_next(p) == p.next_token # <<>>

\* Parser.advance_token
advance_token(p) ==
    IF p.token_ptr < Len(p.tokens)
    THEN [p EXCEPT !.curr_token = p.next_token,
                   !.next_token = <<p.tokens[p.token_ptr + 1]>>,
                   !.token_ptr = @ + 1]
    ELSE [p EXCEPT !.curr_token = p.next_token, !.next_token = <<>>]

\* Parser.match_token(enum, match, required): [p, out], out being "True",
\* "False" or the exception raised (report raises ParserError); match is <<>>
\* for None
match_token(p, enum, match, required) ==
    IF has_next(p)
    THEN IF /\ p.next_token[1].enum = enum
            /\ (IF match # <<>> THEN p.next_token[1].text = match ELSE TRUE)
         THEN [p |-> advance_token(p), out |-> "True"]
         ELSE IF required THEN [p |-> p, out |-> "ParserError"]
         ELSE [p |-> p, out |-> "False"]
    ELSE [p |-> p, out |-> "ParserError"]

\* self.token_ptr = mark; self.curr_token = _ct; self.next_token = _nt
Rollback(p, c) ==
    [p EXCEPT !.token_ptr = c.mark, !.curr_token = c.ct, !.next_token = c.nt]

\* ta = []; mark = self.token_ptr; _ct = self.curr_token; _nt = self.next_token
StreamFrame(p, enum_list, required) ==
    [enum_list |-> enum_list, required |-> required, idx |-> 1, ta |-> <<>>,
     mark |-> p.token_ptr, ct |-> p.curr_token, nt |-> p.next_token, ret |-> <<>>]

\* one pass of the for loop of match_token_stream: [p, c, res], res being
\* "running", "returned" (return []) or the exception match_token raised
StreamBody(p, c) ==
    LET r == match_token(p, c.enum_list[c.idx], <<>>, c.required) IN
    IF r.out = "True"
    THEN [p |-> r.p,
          c |-> [c EXCEPT !.ta = Append(@, r.p.curr_token[1]), !.idx = @ + 1],
          res |-> "running"]
    ELSE IF r.out = "False"
    THEN [p |-> Rollback(r.p, c), c |-> [c EXCEPT !.ret = <<>>], res |-> "returned"]
    ELSE [p |-> r.p, c |-> c, res |-> r.out]

(***************************************************************************)
(* A Parser after start(), its advance_token and match_token_stream called *)
(* one after the other, match_token_stream step by step.                   *)
(***************************************************************************)
StreamEnums == {"X", "N", "eof"}

\* the Tokens of the kinds in enums, one after the other on line 1
ParserTokens(enums) ==
    [i \in 1..Len(enums) |->
        Token(enums[i], IF enums[i] = "eof" THEN EofText ELSE <<enums[i]>>, 1, i)]

RECURSIVE EnumLists(_, _)
EnumLists(S, n) ==
    IF n = 0 THEN {<<>>}
    ELSE LET shorter == EnumLists(S, n - 1) IN
         shorter \cup {Append(l, e) : l \in shorter, e \in S}

\* what Lexer.parse returns: tokens of the kinds X and N, then the EOF token
\* when the Lexer has an EOF rule
ParserTokenLists ==
    {ParserTokens(l \o tl) : l \in EnumLists({"X", "N"}, MaxParserTokens), tl \in {<<>>, <<"eof">>}}

\* the current Parser
TheParser ==
    [tokens |-> p_tokens, token_ptr |-> token_ptr, curr_token |-> curr_token,
     next_token |-> next_token]

\* Parser.start: self.tokens = self.lexer.parse(data); self.advance_token()
ParserInit ==
    /\ PicIdle
    /\ TreeIdle
    /\ LexIdle
    /\ ParseIdle
    /\ TokIdle
    /\ DictIdle
    /\ \E toks \in ParserTokenLists :
          \E p \in {advance_token(NewParser(toks))} :
             /\ p_tokens = p.tokens
             /\ token_ptr = p.token_ptr
             /\ curr_token = p.curr_token
             /\ next_token = p.next_token
    /\ ms = <<>>
    /\ ms_result = "idle"

\* advance_token, called between two calls of match_token_stream
AdvanceCall ==
    /\ ms_result # "running"
    /\ \E p \in {advance_token(TheParser)} :
          /\ token_ptr' = p.token_ptr
          /\ curr_token' = p.curr_token
          /\ next_token' = p.next_token
    /\ UNCHANGED <<p_tokens, ms, ms_result, parser_frame>>

\* match_token_stream(enum_list, required) is called
StreamCall ==
    /\ ms_result # "running"
    /\ \E enum_list \in EnumLists(StreamEnums, MaxStreamLen), required \in BOOLEAN :
          ms' = <<StreamFrame(TheParser, enum_list, required)>>
    /\ ms_result' = "running"
    /\ UNCHANGED <<p_tokens, token_ptr, curr_token, next_token, parser_frame>>

\* one pass of the for loop
StreamPass ==
    /\ ms_result = "running"
    /\ ms[1].idx <= Len(ms[1].enum_list)
    /\ \E r \in {StreamBody(TheParser, ms[1])} :
          /\ token_ptr' = r.p.token_ptr
          /\ curr_token' = r.p.curr_token
          /\ next_token' = r.p.next_token
          /\ ms' = <<r.c>>
          /\ ms_result' = r.res
    /\ UNCHANGED <<p_tokens, parser_frame>>

\* the kind the pass looks for
StreamEnum == ms[1].enum_list[ms[1].idx]

\* the pass finds the kind: ta.append(self.curr_token)
StreamMatch ==
    /\ ms_result = "running"
    /\ ms[1].idx <= Len(ms[1].enum_list)
    /\ next_token # <<>>
    /\ next_token[1].enum = StreamEnum
    /\ StreamPass

\* the pass finds another kind
StreamMismatch ==
    /\ ms_result = "running"
    /\ ms[1].idx <= Len(ms[1].enum_list)
    /\ next_token # <<>>
    /\ next_token[1].enum # StreamEnum
    /\ StreamPass

\* the pass finds no token
StreamNoToken ==
    /\ ms_result = "running"
    /\ ms[1].idx <= Len(ms[1].enum_list)
    /\ next_token = <<>>
    /\ StreamPass

\* the loop is over: return ta
StreamReturn ==
    /\ ms_result = "running"
    /\ ms[1].idx > Len(ms[1].enum_list)
    /\ ms' = <<[ms[1] EXCEPT !.ret = ms[1].ta]>>
    /\ ms_result' = "returned"
    /\ UNCHANGED <<p_tokens, token_ptr, curr_token, next_token, parser_frame>>

ParserNext ==
    \/ AdvanceCall
    \/ StreamCall
    \/ StreamMatch
    \/ StreamMismatch
    \/ StreamNoToken
    \/ StreamReturn

SpecParser == ParserInit /\ [][ParserNext]_vars

(***************************************************************************)
(* Claims about Parser.match_token_stream.                                 *)
(***************************************************************************)
\* the step ends a call of match_token_stream
StreamEnds == ms_result = "running" /\ ms_result' # "running"

\* after the step every kind of enum_list has been matched in order and
\* consumed, and the matched tokens are returned: they are the tokens from
\* the next_token of before the call on
StreamConsumed ==
    LET c == ms[1]
        n == Len(c.enum_list)
        ret == ms'[1].ret
    IN /\ ms_result' = "returned"
       /\ Len(ret) = n
       /\ \A k \in 1..n :
             /\ ret[k].enum = c.enum_list[k]
             /\ c.nt # <<>>
             /\ ret[k] = p_tokens[c.nt[1].col + k - 1]
       /\ n >= 1 =>
             /\ curr_token' = <<ret[n]>>
             /\ next_token' = IF ret[n].col < Len(p_tokens)
                              THEN <<p_tokens[ret[n].col + 1]>> ELSE <<>>
       /\ n = 0 => (curr_token' = c.ct /\ next_token' = c.nt /\ token_ptr' = c.mark)

\* after the step token_ptr, curr_token and next_token are those of before the call
StreamRestored ==
    /\ token_ptr' = ms[1].mark
    /\ curr_token' = ms[1].ct
    /\ next_token' = ms[1].nt

\* a call that ends without an exception has consumed the whole stream or has
\* restored the position
StreamAtomicUnlessRaised ==
    [][ (StreamEnds /\ ms_result' = "returned") => (StreamConsumed \/ StreamRestored) ]_vars

\* C31: match_token_stream is atomic: after any call either every kind of
\* enum_list was matched in order and consumed, the matched tokens being
\* returned, or token_ptr, curr_token and next_token are as before the call,
\* also when the tokens run out in the middle or required is true.
C31_StreamAtomic == [][ StreamEnds => (StreamConsumed \/ StreamRestored) ]_vars

====
